---- MODULE Spec2Model ----
(***************************************************************************)
(* State-machine model of the UNICEF health-services analysis pipeline:    *)
(*   DataCleaner        (src/src/steps/data_cleaner.py)                      *)
(*   CoverageCalculator (src/src/steps/coverage_calculator.py)               *)
(* Data frames are sequences of records (row order is part of the value),   *)
(* text cells are strings, a missing cell (NaN) is the empty tuple and a    *)
(* present nullable cell v is the one-element tuple <<v>>.                   *)
(***************************************************************************)
EXTENDS Integers, Sequences, FiniteSets, TLC

VARIABLES
    raw_files,         \* the raw files present under data/raw
    min_year,          \* DataCleaner.min_year
    max_year,          \* DataCleaner.max_year
    unicef_raw,        \* frame returned by _load_unicef_data
    df_raw,            \* demographic sheet as read without header (header=None)
    header_row,        \* header row index chosen by _load_population_data
    population_raw,    \* frame returned by _load_population_data (with attrs)
    u5mr_raw,          \* frame returned by _load_u5mr_data
    unicef_clean,      \* result of clean_unicef_data
    population_clean,  \* result of clean_population_data
    u5mr_clean,        \* result of clean_u5mr_data
    inner_merged,      \* merged_df of merge_datasets (result of the inner join)
    merged,            \* result of merge_datasets / CoverageCalculator.data
    merged_again,      \* result of a second merge_datasets on the same frames
    coverage_results,  \* result of calculate_population_weighted_coverage
    results,           \* result of get_results_for_reporting
    output_files,      \* files written by the run: file name -> content
    exit_status,       \* exit status of the process, "running" before it ends
    error,             \* exception that ended the run, "none" while running
    pc                 \* position of the run inside the pipeline

config == <<min_year, max_year>>
raw_frames == <<unicef_raw, df_raw, header_row, population_raw, u5mr_raw>>
clean_frames == <<unicef_clean, population_clean, u5mr_clean>>

\* state outside the data frames of one run
environment == <<raw_files, merged_again, output_files, exit_status>>

vars == <<raw_files, min_year, max_year, unicef_raw, df_raw, header_row,
          population_raw, u5mr_raw,
          unicef_clean, population_clean, u5mr_clean, inner_merged, merged,
          merged_again, coverage_results, results, output_files, exit_status,
          error, pc>>

----------------------------------------------------------------------------
(* Bounds of the model *)

\* rows of the raw frame in the specification of each cleaning step
MaxUnicefRows == 2
MaxPopulationRows == 2
MaxU5mrRows == 2
\* rows of the merged frame in the specification of the calculator
MaxMergedRows == 2
\* rows of the three raw frames together in the specification of the pipeline
MaxPipelineRows == 4
\* rows of the three cleaned frames together in the specification of the merge
MaxCleanRows == 4

\* rows of a demographic sheet
MaxSheetRows == 21

----------------------------------------------------------------------------
(* Nullable cells *)

None == <<>>
Some(v) == <<v>>
IsNA(o) == o = <<>>
NotNA(o) == o # <<>>
Val(o) == o[1]

----------------------------------------------------------------------------
(* Generic sequence helpers (pandas row operations) *)

Range(s) == {s[i] : i \in 1..Len(s)}

RECURSIVE SeqSum(_)
SeqSum(s) == IF s = <<>> THEN 0 ELSE Head(s) + SeqSum(Tail(s))

SeqMin(s) == CHOOSE m \in Range(s) : \A x \in Range(s) : m <= x
SeqMax(s) == CHOOSE m \in Range(s) : \A x \in Range(s) : m >= x

\* Series.unique(): distinct values in order of first appearance
RECURSIVE Unique(_)
Unique(s) ==
    IF s = <<>> THEN <<>>
    ELSE LET init == Unique(SubSeq(s, 1, Len(s) - 1))
             last == s[Len(s)]
         IN IF last \in Range(init) THEN init ELSE Append(init, last)

\* DataFrame.drop_duplicates(): keeps the first occurrence of every row
DropDuplicates(rows) == Unique(rows)

\* all sequences over S of length at most n
BoundedSeq(S, n) == UNION {[1..k -> S] : k \in 0..n}

----------------------------------------------------------------------------
(* Strings: str.strip, str.lower, substring test, ordering, numeric parse *)

WhiteSpace == {" ", "\t"}

CharAt(s, i) == SubSeq(s, i, i)

RECURSIVE LStrip(_)
LStrip(s) ==
    IF Len(s) > 0 /\ CharAt(s, 1) \in WhiteSpace
    THEN LStrip(SubSeq(s, 2, Len(s)))
    ELSE s

RECURSIVE RStrip(_)
RStrip(s) ==
    IF Len(s) > 0 /\ CharAt(s, Len(s)) \in WhiteSpace
    THEN RStrip(SubSeq(s, 1, Len(s) - 1))
    ELSE s

Strip(s) == RStrip(LStrip(s))

UpperChars == "ABCDEFGHIJKLMNOPQRSTUVWXYZ"
LowerChars == "abcdefghijklmnopqrstuvwxyz"

LowerTable ==
    [c \in {CharAt(UpperChars, i) : i \in 1..Len(UpperChars)} |->
        CharAt(LowerChars, CHOOSE i \in 1..Len(UpperChars) : CharAt(UpperChars, i) = c)]

LowerChar(c) == IF c \in DOMAIN LowerTable THEN LowerTable[c] ELSE c

RECURSIVE Lower(_)
Lower(s) ==
    IF Len(s) = 0 THEN s
    ELSE LowerChar(CharAt(s, 1)) \o Lower(SubSeq(s, 2, Len(s)))

\* Python's "sub in s"
Contains(sub, s) ==
    \E i \in 1..(Len(s) - Len(sub) + 1) : SubSeq(s, i, i + Len(sub) - 1) = sub

\* position of the first occurrence of character c in s, 0 when absent
FirstIndex(c, s) ==
    IF \E i \in 1..Len(s) : CharAt(s, i) = c
    THEN CHOOSE i \in 1..Len(s) :
            /\ CharAt(s, i) = c
            /\ \A j \in 1..(i - 1) : CharAt(s, j) # c
    ELSE 0

\* code-point order of the characters that occur in the model's strings
CharOrder == "\t ()*+,-.0123456789:ABCDEFGHIJKLMNOPQRSTUVWXYZ_abcdefghijklmnopqrstuvwxyz"

CharRankTable ==
    [c \in {CharAt(CharOrder, i) : i \in 1..Len(CharOrder)} |->
        CHOOSE i \in 1..Len(CharOrder) : CharAt(CharOrder, i) = c]

CharRank(c) == CharRankTable[c]

\* Python's string comparison a < b: decided by the first position where the
\* strings differ, a proper prefix being the smaller string
StrLess(a, b) ==
    LET n == IF Len(a) < Len(b) THEN Len(a) ELSE Len(b)
        diff == {i \in 1..n : CharAt(a, i) # CharAt(b, i)}
        d == CHOOSE i \in diff : \A j \in diff : i <= j
    IN IF diff = {} THEN Len(a) < Len(b)
       ELSE CharRank(CharAt(a, d)) < CharRank(CharAt(b, d))

Digits == "0123456789"

IsDigit(c) == \E i \in 1..Len(Digits) : CharAt(Digits, i) = c
DigitVal(c) == (CHOOSE i \in 1..Len(Digits) : CharAt(Digits, i) = c) - 1

RECURSIVE ParseDigits(_, _)
ParseDigits(s, acc) ==
    IF Len(s) = 0 THEN acc
    ELSE ParseDigits(SubSeq(s, 2, Len(s)), 10 * acc + DigitVal(CharAt(s, 1)))

AllDigits(s) == Len(s) > 0 /\ \A i \in 1..Len(s) : IsDigit(CharAt(s, i))

\* pd.to_numeric(cell, errors='coerce') on a text cell holding an integer
\* literal: surrounding blanks and a sign are accepted, anything else is NaN
ToNumericInvalidAsZero(cell) ==
    LET s == Strip(cell)
    IN IF AllDigits(s) THEN Some(ParseDigits(s, 0))
       ELSE IF Len(s) > 1 /\ CharAt(s, 1) = "-" /\ AllDigits(SubSeq(s, 2, Len(s)))
            THEN Some(0 - ParseDigits(SubSeq(s, 2, Len(s)), 0))
       ELSE IF Len(s) > 1 /\ CharAt(s, 1) = "+" /\ AllDigits(SubSeq(s, 2, Len(s)))
            THEN Some(ParseDigits(SubSeq(s, 2, Len(s)), 0))
       ELSE Some(0)

ToNumeric(cell) ==
    LET s == Strip(cell)
    IN IF AllDigits(s) THEN Some(ParseDigits(s, 0))
       ELSE IF Len(s) > 1 /\ CharAt(s, 1) = "-" /\ AllDigits(SubSeq(s, 2, Len(s)))
            THEN Some(0 - ParseDigits(SubSeq(s, 2, Len(s)), 0))
       ELSE IF Len(s) > 1 /\ CharAt(s, 1) = "+" /\ AllDigits(SubSeq(s, 2, Len(s)))
            THEN Some(ParseDigits(SubSeq(s, 2, Len(s)), 0))
       ELSE None

----------------------------------------------------------------------------
(* Stable sort (DataFrame.sort_values with several keys is a stable
   lexicographic sort): a row moves behind every smaller row and behind every
   equal row that precedes it in the frame. *)

StableSort(s, Less(_, _)) ==
    LET rank == [i \in 1..Len(s) |->
                    Cardinality({j \in 1..Len(s) : Less(s[j], s[i])})
                    + Cardinality({j \in 1..(i - 1) :
                                      ~Less(s[j], s[i]) /\ ~Less(s[i], s[j])})
                    + 1]
    IN [p \in 1..Len(s) |-> s[CHOOSE i \in 1..Len(s) : rank[i] = p]]

Map(s, F(_)) == [i \in 1..Len(s) |-> F(s[i])]

Filter(s, P(_)) == SelectSeq(s, P)

----------------------------------------------------------------------------
(* DataCleaner.clean_unicef_data *)

\* Series.str.extract(r':\s*(.+)') on one cell: the text behind the first
\* colon without its leading blanks; NaN when nothing follows a colon
ExtractAfterColon(s) ==
    LET p == FirstIndex(":", s)
        rest == SubSeq(s, p + 1, Len(s))
    IN IF p = 0 \/ p = Len(s) THEN None
       ELSE IF LStrip(rest) = "" THEN Some(CharAt(rest, Len(rest)))
       ELSE Some(LStrip(rest))

\* Series.str.extract(r'^([^:]+):') on one cell: the non-empty text before
\* the first colon; NaN when there is no colon or nothing precedes it
ExtractBeforeColon(s) ==
    LET p == FirstIndex(":", s)
    IN IF p <= 1 THEN None ELSE Some(SubSeq(s, 1, p - 1))

FillNA(o, default) == IF IsNA(o) THEN default ELSE Val(o)

InYearWindowExclusive(year, lo, hi) == year > lo /\ year < hi

InYearWindow(year, lo, hi) == year >= lo /\ year <= hi

\* the boolean mask of lines 387-391 on a coerced value
ValidPercentage(v) == NotNA(v) /\ Val(v) >= 0 /\ Val(v) <= 100

\* lines 372-384: the derived columns of one raw row (names not yet stripped)
UnicefDerive(r) ==
    [country_name |-> FillNA(ExtractAfterColon(r.area), r.area),
     iso3_code |-> FillNA(ExtractBeforeColon(r.area), "UNKNOWN"),
     indicator |-> FillNA(ExtractBeforeColon(r.indicator), r.indicator),
     year |-> r.year,
     value_clean |-> ToNumeric(r.value)]

\* lines 395-404: select and rename the unified columns
UnicefUnified(d) ==
    [country_name |-> d.country_name,
     iso3_code |-> d.iso3_code,
     indicator |-> d.indicator,
     year |-> d.year,
     coverage_value |-> Val(d.value_clean)]

\* lines 410-411
StripNames(r) ==
    [r EXCEPT !.country_name = Strip(r.country_name),
              !.iso3_code = Strip(r.iso3_code)]

\* line 417: sort_values(['country_name','indicator','year'],
\*                       ascending=[True, True, False])
UnicefSortLessAscendingYear(a, b) ==
    \/ StrLess(a.country_name, b.country_name)
    \/ /\ a.country_name = b.country_name
       /\ \/ StrLess(a.indicator, b.indicator)
          \/ a.indicator = b.indicator /\ a.year < b.year

UnicefSortLess(a, b) ==
    \/ StrLess(a.country_name, b.country_name)
    \/ /\ a.country_name = b.country_name
       /\ \/ StrLess(a.indicator, b.indicator)
          \/ a.indicator = b.indicator /\ a.year > b.year

PairKey(r) == <<r.country_name, r.indicator>>

PairLess(k1, k2) ==
    \/ StrLess(k1[1], k2[1])
    \/ k1[1] = k2[1] /\ StrLess(k1[2], k2[2])

\* line 418: groupby(['country_name','indicator']).first().reset_index():
\* group keys in ascending order, for each key the first row of the frame
\* (no column of these rows is null, so first() returns that row's cells)
GroupByFirst(rows) ==
    LET keys == StableSort(Unique(Map(rows, PairKey)), PairLess)
        FirstOf(k) == rows[CHOOSE i \in 1..Len(rows) :
                              /\ PairKey(rows[i]) = k
                              /\ \A j \in 1..(i - 1) : PairKey(rows[j]) # k]
    IN Map(keys, FirstOf)

CleanUnicefData(df, lo, hi) ==
    LET InWindow(r) == InYearWindow(r.year, lo, hi)
        Valid(d) == ValidPercentage(d.value_clean)
        windowed == Filter(df, InWindow)
        derived == Map(windowed, UnicefDerive)
        valid == Filter(derived, Valid)
        unified == Map(valid, UnicefUnified)
        deduped == DropDuplicates(unified)
        stripped == Map(deduped, StripNames)
        sorted == StableSort(stripped, UnicefSortLess)
    IN GroupByFirst(sorted)

----------------------------------------------------------------------------
(* Column resolution of the demographic frame *)

Labels == {"country", "iso3", "year", "births_2022", "population"}

\* a frame: column headers, rows of cells aligned with the headers, and the
\* attrs['key_columns'] mapping (label -> header) attached by the loader
Frame(columns, key_columns, rows) ==
    [columns |-> columns, key_columns |-> key_columns, rows |-> rows]

EmptyMapping == <<>>

ColumnIndex(columns, col) == CHOOSE i \in 1..Len(columns) : columns[i] = col

Cell(df, row, col) == row[ColumnIndex(df.columns, col)]

\* a loop "for col in columns: if/elif ...: key_columns[label] = col":
\* every label that some header matches is mapped, and a later header
\* overwrites an earlier one with the same label
ResolveColumns(columns, LabelOf(_)) ==
    LET labels == Map(columns, LabelOf)
        LastWith(l) == CHOOSE i \in 1..Len(labels) :
                          /\ labels[i] = l
                          /\ \A j \in 1..Len(labels) : labels[j] = l => j <= i
    IN [l \in Range(labels) \ {""} |-> columns[LastWith(l)]]

\* key_columns[label] = col on an existing mapping
Assign(mapping, label, col) ==
    [l \in DOMAIN mapping \cup {label} |-> IF l = label THEN col ELSE mapping[l]]

\* lines 455-456 and 328-329: the header 'Year ' takes the label year
YearWithTrailingBlank(columns, mapping) ==
    IF "Year " \in Range(columns) THEN Assign(mapping, "year", "Year ") ELSE mapping

\* lines 315-325: the if/elif chain of _load_population_data
LoaderLabel(col) ==
    LET col_str == Strip(Lower(col))
    IN IF Contains("region, subregion, country or area", col_str) THEN "country"
       ELSE IF Contains("iso3 alpha-code", col_str) THEN "iso3"
       ELSE IF col_str = "year" THEN "year"
       ELSE IF Contains("births", col_str) /\ Contains("thousands", col_str)
            THEN "births_2022"
       ELSE IF Contains("total population, as of 1 july (thousands)", col_str)
            THEN "population"
       ELSE ""

\* lines 312-343: the mapping stored in df.attrs['key_columns']
LoadKeyColumns(columns) ==
    LET found == YearWithTrailingBlank(columns, ResolveColumns(columns, LoaderLabel))
    IN IF DOMAIN found = {} /\ Len(columns) >= 12
       THEN [l \in {"country", "year", "births_2022"} |->
                CASE l = "country" -> columns[3]
                  [] l = "year" -> columns[11]
                  [] l = "births_2022" -> columns[12]]
       ELSE found

\* lines 295-300: a cell of the row holds the anchor phrase, in any case
HasAnchor(row) ==
    \E k \in 1..Len(row) :
       Contains("region, subregion, country or area", Lower(row[k]))

FindHeaderRowLastMatch(grid) ==
    LET hits == {i \in 15..19 : i < Len(grid) /\ HasAnchor(grid[i + 1])}
    IN IF hits = {} THEN 16
       ELSE CHOOSE i \in hits : \A j \in hits : j <= i

\* lines 296-301: for i in range(15, 20): if i < len(df_raw): ...: break
\* (row i of the sheet is grid[i + 1])
RECURSIVE ScanForHeader(_, _)
ScanForHeader(grid, i) ==
    IF i >= 20 THEN None
    ELSE IF i < Len(grid) /\ HasAnchor(grid[i + 1]) THEN Some(i)
    ELSE ScanForHeader(grid, i + 1)

\* lines 294-305: the header row, row 16 when the scan finds none
FindHeaderRow(grid) ==
    LET found == ScanForHeader(grid, 15)
    IN IF found = None THEN 16 ELSE Val(found)

\* line 308: pd.read_excel(file_path, header=header_row) with the mapping of
\* lines 312-343 attached (line 345)
ReadExcel(grid, header) ==
    LET columns == grid[header + 1]
    IN Frame(columns, LoadKeyColumns(columns), SubSeq(grid, header + 2, Len(grid)))

\* lines 443-453: the if/elif chain of clean_population_data
CleanerLabel(col) ==
    LET col_str == Strip(Lower(col))
    IN IF Contains("country", col_str) \/ Contains("area", col_str) THEN "country"
       ELSE IF Contains("iso3 alpha-code", col_str) THEN "iso3"
       ELSE IF Contains("year", col_str) THEN "year"
       ELSE IF Contains("births", col_str) /\ Contains("thousands", col_str)
            THEN "births_2022"
       ELSE IF /\ Contains("population", col_str)
               /\ Contains("july", col_str)
               /\ Contains("thousands", col_str)
            THEN "population"
       ELSE ""

\* lines 438-465: the mapping clean_population_data works with
CleanerKeyColumns(df) ==
    IF DOMAIN df.key_columns # {} THEN df.key_columns
    ELSE LET found == YearWithTrailingBlank(df.columns,
                          ResolveColumns(df.columns, CleanerLabel))
         IN IF DOMAIN found = {} /\ Len(df.columns) >= 12
            THEN [l \in {"country", "year", "population"} |->
                     CASE l = "country" -> df.columns[3]
                       [] l = "year" -> df.columns[11]
                       [] l = "population" -> df.columns[12]]
            ELSE found

\* lines 470-471
RequiredCols == <<"country", "year", "births_2022">>

MissingColsFirstOnly(key_columns) ==
    LET Absent(l) == l \notin DOMAIN key_columns
        missing == Filter(RequiredCols, Absent)
    IN IF missing = <<>> THEN <<>> ELSE <<missing[1]>>

MissingCols(key_columns) ==
    LET Absent(l) == l \notin DOMAIN key_columns
    IN Filter(RequiredCols, Absent)

\* str() of a list of strings: ['a', 'b']
RECURSIVE ListItems(_)
ListItems(labels) ==
    IF labels = <<>> THEN ""
    ELSE IF Len(labels) = 1 THEN "'" \o labels[1] \o "'"
    ELSE "'" \o labels[1] \o "', " \o ListItems(Tail(labels))

ListRepr(labels) == "[" \o ListItems(labels) \o "]"

\* line 475: the message of the ValueError
MissingColsError(missing_cols) ==
    "ValueError: Cannot proceed without required columns: " \o ListRepr(missing_cols)

----------------------------------------------------------------------------
(* DataCleaner.clean_population_data, lines 477-526 *)

BirthsUnified(r) ==
    [country_name |-> r.country_name, iso3_code |-> r.iso3_code,
     births_2022 |-> r.births_2022]

\* line 502 and lines 504-506: the year-2022 slice, or every row of the
\* window when that slice is empty
BirthsYearSliceAllYears(rows) == rows

BirthsYearSliceAfterValidation(rows) ==
    LET Is2022(r) == r.year = 2022
        Usable(r) == r.year = 2022 /\ NotNA(r.births_2022) /\ Val(r.births_2022) > 0
    IN IF Len(Filter(rows, Usable)) = 0 THEN rows ELSE Filter(rows, Is2022)

BirthsYearSlice(rows) ==
    LET Is2022(r) == r.year = 2022
    IN IF Len(Filter(rows, Is2022)) = 0 THEN rows ELSE Filter(rows, Is2022)

PositiveBirths(r) == NotNA(r.births_2022) /\ Val(r.births_2022) > 0

CleanPopulationData(df, key_columns, lo, hi) ==
    LET year_col == key_columns["year"]
        country_col == key_columns["country"]
        births_col == key_columns["births_2022"]
        InWindow(row) == InYearWindow(Cell(df, row, year_col), lo, hi)
        Derive(row) ==
            [year |-> Cell(df, row, year_col),
             country_name |-> Strip(Cell(df, row, country_col)),
             iso3_code |-> IF "iso3" \in DOMAIN key_columns
                           THEN Strip(Cell(df, row, key_columns["iso3"]))
                           ELSE "UNKNOWN",
             births_2022 |-> ToNumeric(Cell(df, row, births_col))]
        Finish(r) == [r EXCEPT !.births_2022 = Val(r.births_2022)]
        windowed == Filter(df.rows, InWindow)
        derived == Map(windowed, Derive)
        births_2022_data == BirthsYearSlice(derived)
        unified == Map(births_2022_data, BirthsUnified)
        deduped == DropDuplicates(unified)
        positive == Filter(deduped, PositiveBirths)
    IN Map(Map(positive, Finish), StripNames)

----------------------------------------------------------------------------
(* DataCleaner.clean_u5mr_data *)

\* lines 539-548: classify_status on one Status.U5MR cell (NaN is None)
ClassifyStatusOffTrackFirst(status) ==
    IF IsNA(status) THEN "unknown"
    ELSE LET status_lower == Lower(Val(status))
         IN IF Contains("acceleration", status_lower) \/ Contains("off-track", status_lower)
            THEN "off_track"
            ELSE IF Contains("achieved", status_lower) \/ Contains("on-track", status_lower)
            THEN "on_track"
            ELSE "unknown"

ClassifyStatus(status) ==
    IF IsNA(status) THEN "unknown"
    ELSE LET status_lower == Lower(Val(status))
         IN IF Contains("achieved", status_lower) \/ Contains("on-track", status_lower)
            THEN "on_track"
            ELSE IF Contains("acceleration", status_lower) \/ Contains("off-track", status_lower)
            THEN "off_track"
            ELSE "unknown"

\* lines 535-555: the unified columns of one classification row
U5mrUnified(r) ==
    [country_name |-> Strip(r.OfficialName),
     iso3_code |-> Strip(r.ISO3Code),
     u5mr_status |-> ClassifyStatus(r.Status)]

CleanU5mrData(df) == DropDuplicates(Map(df, U5mrUnified))

----------------------------------------------------------------------------
(* DataCleaner.merge_datasets *)

RECURSIVE Concat(_)
Concat(seqs) == IF seqs = <<>> THEN <<>> ELSE Head(seqs) \o Concat(Tail(seqs))

\* lines 583-588: pd.merge(unicef_df, population_df, on=['country_name'],
\* how='inner'): one row for every pair of a coverage row and a births row with
\* the same country_name, in the order of the coverage frame; the iso3_code
\* column of both frames is kept under the suffixes _x and _y
InnerJoinRow(u, p) ==
    [country_name |-> u.country_name,
     indicator |-> u.indicator,
     iso3_code_x |-> u.iso3_code,
     year |-> u.year,
     coverage_value |-> Some(u.coverage_value),
     iso3_code_y |-> p.iso3_code,
     births_2022 |-> Some(p.births_2022)]

MergeInnerIgnoringCase(unicef_df, population_df) ==
    LET RowsOf(u) ==
            LET SameCountry(p) == Lower(p.country_name) = Lower(u.country_name)
                Pair(p) == InnerJoinRow(u, p)
            IN Map(Filter(population_df, SameCountry), Pair)
    IN Concat(Map(unicef_df, RowsOf))

MergeInnerAnyCountry(unicef_df, population_df) ==
    LET RowsOf(u) ==
            LET Pair(p) == InnerJoinRow(u, p)
            IN Map(population_df, Pair)
    IN Concat(Map(unicef_df, RowsOf))

MergeInner(unicef_df, population_df) ==
    LET RowsOf(u) ==
            LET SameCountry(p) == p.country_name = u.country_name
                Pair(p) == InnerJoinRow(u, p)
            IN Map(Filter(population_df, SameCountry), Pair)
    IN Concat(Map(unicef_df, RowsOf))

WithStatus(m, status) ==
    [country_name |-> m.country_name,
     indicator |-> m.indicator,
     iso3_code_x |-> m.iso3_code_x,
     year |-> m.year,
     coverage_value |-> m.coverage_value,
     iso3_code_y |-> m.iso3_code_y,
     births_2022 |-> m.births_2022,
     u5mr_status |-> status]

\* lines 593-598: pd.merge(merged_df, u5mr_df[['country_name','u5mr_status']],
\* on='country_name', how='left'): every row of the left frame once per status
\* row of its country, and once with a missing u5mr_status when there is none
MergeLeftFillUnknown(merged_df, u5mr_df) ==
    LET RowsOf(m) ==
            LET SameCountry(s) == s.country_name = m.country_name
                Pair(s) == WithStatus(m, Some(s.u5mr_status))
                hits == Map(Filter(u5mr_df, SameCountry), Pair)
            IN IF hits = <<>> THEN <<WithStatus(m, Some("unknown"))>> ELSE hits
    IN Concat(Map(merged_df, RowsOf))

MergeLeft(merged_df, u5mr_df) ==
    LET RowsOf(m) ==
            LET SameCountry(s) == s.country_name = m.country_name
                Pair(s) == WithStatus(m, Some(s.u5mr_status))
                hits == Map(Filter(u5mr_df, SameCountry), Pair)
            IN IF hits = <<>> THEN <<WithStatus(m, None)>> ELSE hits
    IN Concat(Map(merged_df, RowsOf))

MergeDatasets(unicef_df, population_df, u5mr_df) ==
    MergeLeft(MergeInner(unicef_df, population_df), u5mr_df)

\* the columns of the frame merge_datasets returns: the columns of the
\* coverage frame (group keys first, as reset_index leaves them), then those
\* of the births frame, both iso3_code columns under a suffix, then u5mr_status
MergedColumns ==
    <<"country_name", "indicator", "iso3_code_x", "year", "coverage_value",
      "iso3_code_y", "births_2022", "u5mr_status">>

----------------------------------------------------------------------------
(* CoverageCalculator *)

\* a quotient num/den, kept unevaluated
Frac(n, d) == [num |-> n, den |-> d]
FracEq(a, b) == a.num * b.den = b.num * a.den

Column(rows, F(_)) == Map(rows, F)

Coverage(r) == Val(r.coverage_value)
Births(r) == Val(r.births_2022)
CoverageTimesBirths(r) == Val(r.coverage_value) * Val(r.births_2022)
Country(r) == r.country_name
Indicator(r) == r.indicator
Status(r) == r.u5mr_status
Year(r) == r.year

\* lines 47-53: the boolean mask of the pre-filter
IsValidRowAnyBirths(r) ==
    /\ NotNA(r.coverage_value)
    /\ NotNA(r.births_2022)
    /\ Val(r.coverage_value) >= 0
    /\ Val(r.coverage_value) <= 100

IsValidRow(r) ==
    /\ NotNA(r.coverage_value)
    /\ NotNA(r.births_2022)
    /\ Val(r.coverage_value) >= 0
    /\ Val(r.coverage_value) <= 100
    /\ Val(r.births_2022) > 0

ValidData(data) == Filter(data, IsValidRow)

\* np.average(rows.coverage_value, weights=rows.births_2022) on rows without
\* missing cells: sum(c * w) / sum(w)
SimpleInsteadOfWeighted(rows) ==
    Frac(SeqSum(Column(rows, Coverage)), Len(rows))

WeightedAverage(rows) ==
    Frac(SeqSum(Column(rows, CoverageTimesBirths)), SeqSum(Column(rows, Births)))

\* Series.mean() on rows without missing cells
SimpleAverage(rows) == Frac(SeqSum(Column(rows, Coverage)), Len(rows))

\* Series.nunique()
NUnique(values) == Cardinality(Range(values))

\* lines 88-107 and 144-163: the statistics of one group of rows
GroupStats(rows) ==
    [births_weighted_avg |-> WeightedAverage(rows),
     simple_avg |-> SimpleAverage(rows),
     total_births |-> SeqSum(Column(rows, Births)),
     num_countries |-> NUnique(Column(rows, Country)),
     min_coverage |-> SeqMin(Column(rows, Coverage)),
     max_coverage |-> SeqMax(Column(rows, Coverage))]

WithIndicator(data, indicator) ==
    LET P(r) == r.indicator = indicator IN Filter(data, P)

\* data[data['u5mr_status'] == status] for a status that is not missing
WithStatusValue(data, status) ==
    LET P(r) == r.u5mr_status = Some(status) IN Filter(data, P)

\* lines 125-127 (also 197-199, 286-288): the statuses the loops work on, in
\* order of first appearance: unique() without the missing value and 'unknown'
LoopStatuses(data) ==
    LET P(s) == ~(IsNA(s) \/ s = Some("unknown"))
    IN Column(Filter(Unique(Column(data, Status)), P), Val)

Indicators(data) == Unique(Column(data, Indicator))

\* lines 77-116
CalculateOverallCoverage(data) ==
    [indicator \in Range(Indicators(data)) |->
        GroupStats(WithIndicator(data, indicator))]

\* lines 118-171
CalculateByU5mrStatus(data) ==
    [status \in Range(LoopStatuses(data)) |->
        LET status_data == WithStatusValue(data, status)
        IN [indicator \in Range(Indicators(status_data)) |->
               GroupStats(WithIndicator(status_data, indicator))]]

StatusComparisonWholeIndicator(indicator_data) ==
    [status \in Range(LoopStatuses(indicator_data)) |->
        LET status_data == WithStatusValue(indicator_data, status)
        IN [births_weighted_avg |-> WeightedAverage(status_data),
            simple_avg |-> SimpleAverage(status_data),
            num_countries |-> NUnique(Column(status_data, Country)),
            total_births |-> SeqSum(Column(indicator_data, Births))]]

\* lines 196-215
StatusComparison(indicator_data) ==
    [status \in Range(LoopStatuses(indicator_data)) |->
        LET status_data == WithStatusValue(indicator_data, status)
        IN [births_weighted_avg |-> WeightedAverage(status_data),
            simple_avg |-> SimpleAverage(status_data),
            num_countries |-> NUnique(Column(status_data, Country)),
            total_births |-> SeqSum(Column(status_data, Births))]]

\* lines 173-227
CalculateByIndicator(data) ==
    [indicator \in Range(Indicators(data)) |->
        LET indicator_data == WithIndicator(data, indicator)
        IN [overall_weighted |-> WeightedAverage(indicator_data),
            overall_simple |-> SimpleAverage(indicator_data),
            status_comparison |-> StatusComparison(indicator_data),
            total_countries |-> NUnique(Column(indicator_data, Country)),
            total_births |-> SeqSum(Column(indicator_data, Births))]]

\* Series.value_counts(): the count of every value that is not missing
ValueCounts(values) ==
    LET present == {Val(v) : v \in Range(values) \ {None}}
    IN [v \in present |-> Cardinality({i \in 1..Len(values) : values[i] = Some(v)})]

\* line 238: int(data['year'].min()) raises ValueError on a frame without rows
SummaryRaises(data) == Len(data) = 0

\* lines 234-251 (median and standard deviation are not represented)
GenerateSummaryStatistics(data) ==
    [total_records |-> Len(data),
     unique_countries |-> NUnique(Column(data, Country)),
     year_range |-> [min |-> SeqMin(Column(data, Year)),
                     max |-> SeqMax(Column(data, Year))],
     indicators |-> Indicators(data),
     u5mr_status_distribution |-> ValueCounts(Column(data, Status)),
     total_births |-> SeqSum(Column(data, Births)),
     coverage_statistics |->
        [mean |-> SimpleAverage(data),
         min |-> SeqMin(Column(data, Coverage)),
         max |-> SeqMax(Column(data, Coverage))]]

\* lines 59-75: the mapping returned by calculate_population_weighted_coverage
CalculatePopulationWeightedCoverage(data) ==
    LET valid_data == ValidData(data)
    IN [overall |-> CalculateOverallCoverage(valid_data),
        by_status |-> CalculateByU5mrStatus(valid_data),
        by_indicator |-> CalculateByIndicator(valid_data),
        summary |-> GenerateSummaryStatistics(valid_data)]

\* np.average on rows of the unfiltered frame: a missing weight or value makes
\* the result NaN, weights that sum to zero raise ZeroDivisionError
NpAverage(rows) ==
    LET NoBirths(r) == IsNA(r.births_2022)
        NoCoverage(r) == IsNA(r.coverage_value)
    IN IF Filter(rows, NoBirths) # <<>> THEN [kind |-> "nan"]
       ELSE IF SeqSum(Column(rows, Births)) = 0 THEN [kind |-> "ZeroDivisionError"]
       ELSE IF Filter(rows, NoCoverage) # <<>> THEN [kind |-> "nan"]
       ELSE [kind |-> "value", avg |-> WeightedAverage(rows)]

\* Series.sum() skips missing cells
SumPresent(values) ==
    LET P(v) == NotNA(v) IN SeqSum(Column(Filter(values, P), Val))

BirthsCell(r) == r.births_2022

\* lines 285-288: the (indicator, status) pairs of the two nested loops
VizPairs(data) ==
    LET statuses == LoopStatuses(data)
        PairsOf(indicator) ==
            LET Pair(status) == <<indicator, status>> IN Map(statuses, Pair)
    IN Concat(Map(Indicators(data), PairsOf))

VizSubset(data, pair) ==
    LET P(r) == r.indicator = pair[1] /\ r.u5mr_status = Some(pair[2])
    IN Filter(data, P)

Unbound == [kind |-> "unbound"]

\* lines 283-307: the loop state after the first k pairs: the rows appended so
\* far, the local weighted_avg, and the exception that ended the loop.  The
\* append of lines 301-307 runs for every pair, also when the subset is empty
\* and weighted_avg still holds the value of an earlier pair or no value.
RECURSIVE VizLoop(_, _, _)
VizLoop(data, pairs, k) ==
    IF k = 0 THEN [viz_data |-> <<>>, weighted_avg |-> Unbound, raised |-> "none"]
    ELSE LET before == VizLoop(data, pairs, k - 1)
             subset == VizSubset(data, pairs[k])
             average == IF Len(subset) > 0 THEN NpAverage(subset)
                        ELSE before.weighted_avg
         IN IF before.raised # "none" THEN before
            ELSE IF average.kind = "ZeroDivisionError"
                 THEN [before EXCEPT !.raised = "ZeroDivisionError"]
            ELSE IF average.kind = "unbound"
                 THEN [before EXCEPT !.raised = "UnboundLocalError"]
            ELSE [viz_data |-> Append(before.viz_data,
                                  [indicator |-> pairs[k][1],
                                   u5mr_status |-> pairs[k][2],
                                   coverage_value |-> average,
                                   num_countries |-> NUnique(Column(subset, Country)),
                                   total_births |-> SumPresent(Column(subset, BirthsCell))]),
                  weighted_avg |-> average,
                  raised |-> "none"]

\* lines 280-309
PrepareDataForVisualization(data) ==
    LET pairs == VizPairs(data)
        final == VizLoop(data, pairs, Len(pairs))
    IN [raised |-> final.raised, viz_data |-> final.viz_data]

\* lines 271-276: the mapping returned by get_results_for_reporting
ReportingData(calculated, viz_data) ==
    [overall_coverage |-> calculated.overall,
     by_status |-> calculated.by_status,
     summary |-> calculated.summary,
     data_for_visualization |-> viz_data]

----------------------------------------------------------------------------
(* Input domains *)

NotRun == <<>>

\* the three raw files the loaders look for under data/raw
RawFiles == {"unicef", "population", "u5mr"}

\* no file written yet
NoFiles == [name \in {} |-> <<>>]

\* open(name, 'w') followed by a write of content
WriteFile(files, name, content) ==
    [n \in DOMAIN files \cup {name} |-> IF n = name THEN content ELSE files[n]]

\* how the prompt of main ends: input() returns an answer, or raises EOFError
\* when the process has no standard input
\* content of a file whose writing was interrupted
Incomplete == "incomplete"

DashboardPrompts == {"answered", "EOFError"}

\* configured acceptance windows (run_analysis.py uses 2018-2022)
YearWindows == {<<2018, 2022>>, <<2018, 2021>>}

UnicefAreas == {"KEN: Kenya", "KEN:Kenya ", "Uganda"}
\* area strings with several colons, nothing behind or before the colon
UnicefOddAreas == {"KEN: Kenya: North", "KEN:", ":Kenya"}
UnicefIndicators == {"MNCH_ANC4: ANC4+", "MNCH_SAB"}
UnicefYears == {2017, 2019, 2021}
UnicefValues == {"60", "70"}

\* ordinary observations, plus observations on the edges of the window and
\* of the percentage range and observations without a numeric value
UnicefRawRows ==
    [area : {"KEN: Kenya"}, indicator : UnicefIndicators,
     year : UnicefYears, value : UnicefValues]
    \cup [area : UnicefAreas, indicator : {"MNCH_ANC4: ANC4+"},
          year : UnicefYears, value : {"60"}]
    \cup {[area |-> "KEN: Kenya", indicator |-> "MNCH_ANC4: ANC4+",
           year |-> e[1], value |-> e[2]] :
             e \in {<<2018, "0">>, <<2022, "100">>, <<2022, "101">>,
                    <<2019, "-1">>, <<2019, "n/a">>, <<2019, "">>}}
    \cup {[area |-> a, indicator |-> "MNCH_ANC4: ANC4+", year |-> 2019,
           value |-> "70"] : a \in UnicefOddAreas}

\* demographic input

PopulationCountries == {"Kenya", "Uganda "}
PopulationCodes == {"KEN", "KE"}
PopulationYears == {2020, 2022}
PopulationBirths == {"1000", "900"}

\* births cells that are zero or not numeric, as (country, code, year, cell)
PopulationOddRows ==
    {<<"Kenya", "KEN", 2022, "0">>, <<"Kenya", "KEN", 2022, "...">>,
     <<"Kenya", "KEN", 2020, "...">>}

\* cells of a sheet row above the header row (titles and notes)
NotesCells ==
    <<"Index", "Variant", "Notes", "Location code", "ISO2 Alpha-code",
      "SDMX code**", "Type", "Parent code", "Median Age", "Net Migration",
      "Sex Ratio", "Life Expectancy">>

NotesRow(width) == SubSeq(NotesCells, 1, width)

\* header rows: the sheet's own headers, a sheet without ISO codes, a sheet
\* whose country header is not recognised, a sheet whose headers name nothing,
\* a sheet of twelve columns whose headers name nothing
WorkbookHeaders ==
    {<<"Region, subregion, country or area *", "ISO3 Alpha-code", "Year",
       "Births (thousands)">>,
     <<"Region, subregion, country or area *", "Year", "Births (thousands)">>,
     <<"Location", "Year ", "Births (thousands)">>,
     <<"Name", "Period", "Births">>,
     NotesCells}

\* header row of a frame handed to clean_population_data without attrs
PlainHeaders == {<<"Country", "Year", "Births (thousands)">>, NotesCells}

\* the cells of one row under the given headers (a sheet of twelve columns
\* has the country in its third column)
PopulationRow(columns, country, code, year, births) ==
    [i \in 1..Len(columns) |->
        IF i = (IF Len(columns) >= 12 THEN 3 ELSE 1) THEN country
        ELSE IF i = Len(columns) THEN births
        ELSE IF i = Len(columns) - 1 THEN year
        ELSE code]

PopulationRawRows(columns) ==
    {PopulationRow(columns, c, k, y, b) :
        c \in PopulationCountries, k \in PopulationCodes,
        y \in PopulationYears, b \in PopulationBirths}
    \cup {PopulationRow(columns, o[1], o[2], o[3], o[4]) : o \in PopulationOddRows}

\* frames as _load_population_data returns them (attrs set by the loader) and
\* frames built by a caller (no attrs)
PopulationFrames ==
    UNION {LET key_columns == LoadKeyColumns(columns)
           IN {Frame(columns, key_columns, rows) :
                  rows \in BoundedSeq(PopulationRawRows(columns), MaxPopulationRows)} :
           columns \in WorkbookHeaders}
    \cup UNION {{Frame(columns, EmptyMapping, rows) :
                    rows \in BoundedSeq(PopulationRawRows(columns), MaxPopulationRows)} :
                columns \in PlainHeaders}

EmptyFrame == Frame(<<>>, EmptyMapping, <<>>)

\* classification input
U5mrNames == {"Kenya", "Uganda "}
U5mrCodes == {"KEN", "KE"}
U5mrStatusTexts ==
    {Some("Achieved"), Some("On-track"), Some("Acceleration Needed"),
     Some("OFF-TRACK"), Some("Achieved, no acceleration"), Some("On Track"),
     Some(""), None}

U5mrRawRows == [OfficialName : U5mrNames, ISO3Code : U5mrCodes, Status : U5mrStatusTexts]

\* merged frames handed to CoverageCalculator: rows that pass the pre-filter
\* with every status value, and rows with a missing or out-of-range cell
MergedRow(country, indicator, coverage, births, status) ==
    [country_name |-> country,
     indicator |-> indicator,
     iso3_code_x |-> "UNKNOWN",
     year |-> IF country = "Kenya" THEN 2021 ELSE 2019,
     coverage_value |-> coverage,
     iso3_code_y |-> "UNKNOWN",
     births_2022 |-> births,
     u5mr_status |-> status]

MergedStatuses == {Some("on_track"), Some("off_track"), Some("unknown"), None}

MergedRows ==
    {MergedRow(c, i, Some(v[1]), Some(v[2]), s) :
        c \in {"Kenya", "Uganda"}, i \in {"MNCH_ANC4", "MNCH_SAB"},
        v \in {<<70, 1000>>, <<90, 500>>}, s \in MergedStatuses}
    \cup {MergedRow("Kenya", "MNCH_ANC4", v[1], v[2], Some("on_track")) :
            v \in {<<None, Some(1000)>>, <<Some(150), Some(1000)>>,
                   <<Some(0 - 5), Some(1000)>>, <<Some(70), None>>,
                   <<Some(70), Some(0)>>, <<Some(90), Some(0 - 500)>>}}

\* raw frames of the pipeline: a country with two estimates of one indicator
\* and with a second indicator, a second country, a country without births;
\* a country listed under two ISO codes; a country with two status texts and
\* a country without status text
PipelineUnicefRows ==
    {[area |-> e[1], indicator |-> e[2], year |-> e[3], value |-> e[4]] :
        e \in {<<"KEN: Kenya", "MNCH_ANC4: ANC4+", 2021, "70">>,
               <<"KEN: Kenya", "MNCH_ANC4: ANC4+", 2019, "50">>,
               <<"KEN: Kenya", "MNCH_SAB: SAB", 2021, "80">>,
               <<"UGA: Uganda", "MNCH_ANC4: ANC4+", 2021, "90">>,
               <<"UGA: Uganda", "MNCH_SAB: SAB", 2020, "60">>,
               <<"TZA: Tanzania", "MNCH_ANC4: ANC4+", 2021, "40">>}}

PipelineHeaders ==
    <<"Region, subregion, country or area *", "ISO3 Alpha-code", "Year",
      "Births (thousands)">>

\* the sheet of a workbook with sixteen rows of notes, the header row and the
\* data rows
SheetOf(columns, rows) ==
    [i \in 1..16 |-> NotesRow(Len(columns))] \o <<columns>> \o rows

\* header rows of the demographic sheet: the sheet's own, one in capitals,
\* one with a second births column, one of the full width of twelve columns
UpperHeaders ==
    <<"REGION, SUBREGION, COUNTRY OR AREA *", "ISO3 Alpha-code", "Year",
      "Births (thousands)">>

TeenBirthsHeaders ==
    <<"Region, subregion, country or area *", "Year", "Births (thousands)",
      "Births by women aged 15 to 19 (thousands)">>

WideHeaders == PipelineHeaders \o SubSeq(NotesCells, 5, Len(NotesCells))

\* a data row of the sheet
SheetDataRow(width) ==
    [i \in 1..width |->
        IF i = 1 THEN "Kenya" ELSE IF i = 2 THEN "KEN"
        ELSE IF i = 3 THEN 2022 ELSE "1000"]

\* a sheet of n rows with the header row at the rows `at` (counted from 0),
\* data rows behind the scanned range and rows of notes elsewhere
Sheet(n, at, columns) ==
    [i \in 1..n |->
        IF (i - 1) \in at THEN columns
        ELSE IF i - 1 >= 20 THEN SheetDataRow(Len(columns))
        ELSE NotesRow(Len(columns))]

\* sheets with header rows at any of the rows 14 to 20: one row before the
\* scanned range, the scanned range, one row behind it
Workbooks ==
    {Sheet(n, at, columns) :
        n \in 17..MaxSheetRows,
        at \in SUBSET (14..20),
        columns \in {PipelineHeaders, UpperHeaders, TeenBirthsHeaders, WideHeaders}}

PipelinePopulationRows ==
    {<<"Kenya", "KEN", 2022, "1000">>, <<"Kenya", "KE", 2022, "1000">>,
     <<"Uganda", "UGA", 2022, "500">>}

PipelineU5mrRows ==
    {[OfficialName |-> e[1], ISO3Code |-> e[2], Status |-> e[3]] :
        e \in {<<"Kenya", "KEN", Some("Achieved")>>,
               <<"Kenya", "KEN", Some("Acceleration Needed")>>,
               <<"Uganda", "UGA", Some("Acceleration Needed")>>,
               <<"Uganda", "UGA", None>>}}

\* cleaned frames handed to merge_datasets: a country with two indicators, a
\* country whose name differs from another one only by case, a country
\* listed under two ISO codes, a country with two status rows
CleanCoverageRows ==
    {[country_name |-> e[1], iso3_code |-> e[2], indicator |-> i,
      year |-> 2021, coverage_value |-> 70] :
        e \in {<<"Kenya", "KEN">>, <<"Uganda", "UGA">>, <<"kenya", "KEN">>},
        i \in {"MNCH_ANC4", "MNCH_SAB"}}

CleanBirthsRows ==
    {[country_name |-> e[1], iso3_code |-> e[2], births_2022 |-> e[3]] :
        e \in {<<"Kenya", "KEN", 1000>>, <<"Kenya", "KE", 1000>>,
               <<"Uganda", "UGA", 500>>}}

CleanStatusRows ==
    {[country_name |-> e[1], iso3_code |-> e[2], u5mr_status |-> e[3]] :
        e \in {<<"Kenya", "KEN", "on_track">>, <<"Kenya", "KEN", "off_track">>,
               <<"Uganda", "UGA", "unknown">>, <<"kenya", "KEN", "off_track">>}}

\* a coverage frame as clean_unicef_data returns it: one row per
\* (country_name, indicator), in ascending order of that pair
IsCleanCoverageFrame(rows) ==
    \A i \in 1..(Len(rows) - 1) : PairLess(PairKey(rows[i]), PairKey(rows[i + 1]))

\* a frame as drop_duplicates leaves it: no row twice
HasNoDuplicateRow(rows) ==
    \A i, j \in 1..Len(rows) : rows[i] = rows[j] => i = j

----------------------------------------------------------------------------
(* Actions: the steps of clean_all_datasets and of main, in program order *)

\* the first raw file a run of the three loaders does not find, in the order
\* _load_unicef_data, _load_population_data, _load_u5mr_data
MissingFiles == RawFiles \ raw_files

\* cleaner.analyze_data_structure(), run_analysis.py line 126: loads the three
\* raw files (data_cleaner.py lines 50-52); a loader raises FileNotFoundError
\* when its file does not exist
AnalyzeDataStructure ==
    /\ pc = "start"
    /\ IF MissingFiles # {}
       THEN /\ error' = "FileNotFoundError"
            /\ pc' = "failed"
       ELSE /\ pc' = "analyzed"
            /\ UNCHANGED error
    /\ UNCHANGED <<environment, config, raw_frames, clean_frames, inner_merged,
                   merged, coverage_results, results>>

\* data_cleaner.py lines 206-208: clean_all_datasets loads the three raw
\* frames; the frames are whatever the files hold
LoadRawData ==
    /\ pc = "analyzed"
    /\ IF MissingFiles # {}
       THEN /\ error' = "FileNotFoundError"
            /\ pc' = "failed"
            /\ UNCHANGED raw_frames
       ELSE /\ \E nu \in 0..MaxPipelineRows :
                  \E np \in 0..(MaxPipelineRows - nu) :
                     \E ns \in 0..(MaxPipelineRows - nu - np) :
                        /\ unicef_raw' \in [1..nu -> PipelineUnicefRows]
                        /\ \E rows \in [1..np -> PipelinePopulationRows] :
                              /\ df_raw' = SheetOf(PipelineHeaders, rows)
                              /\ header_row' = FindHeaderRow(df_raw')
                              /\ population_raw' = ReadExcel(df_raw', header_row')
                        /\ u5mr_raw' \in [1..ns -> PipelineU5mrRows]
            /\ pc' = "loaded"
            /\ UNCHANGED error
    /\ UNCHANGED <<environment, config, clean_frames, inner_merged, merged,
                   coverage_results, results>>

\* clean_unicef_data(unicef_raw), data_cleaner.py line 212
CleanUnicef ==
    /\ pc = "loaded"
    /\ unicef_clean' = CleanUnicefData(unicef_raw, min_year, max_year)
    /\ pc' = "unicef_cleaned"
    /\ UNCHANGED <<environment, config, raw_frames, population_clean, u5mr_clean,
                   inner_merged, merged, coverage_results, results, error>>

\* clean_population_data(population_raw), line 215: raises ValueError when a
\* required column is not resolved
CleanPopulation ==
    /\ pc = "unicef_cleaned"
    /\ LET key_columns == CleanerKeyColumns(population_raw)
       IN IF MissingCols(key_columns) # <<>>
          THEN /\ error' = MissingColsError(MissingCols(key_columns))
               /\ pc' = "failed"
               /\ UNCHANGED population_clean
          ELSE /\ population_clean' =
                     CleanPopulationData(population_raw, key_columns, min_year, max_year)
               /\ pc' = "population_cleaned"
               /\ UNCHANGED error
    /\ UNCHANGED <<environment, config, raw_frames, unicef_clean, u5mr_clean,
                   inner_merged, merged, coverage_results, results>>

\* clean_u5mr_data(u5mr_raw), line 218
CleanU5mr ==
    /\ pc = "population_cleaned"
    /\ u5mr_clean' = CleanU5mrData(u5mr_raw)
    /\ pc' = "u5mr_cleaned"
    /\ UNCHANGED <<environment, config, raw_frames, unicef_clean, population_clean,
                   inner_merged, merged, coverage_results, results, error>>

\* _save_cleaned_datasets(...), lines 230-234 and 613-622: one CSV file for
\* each cleaned frame
SaveCleanedDatasets ==
    /\ pc = "u5mr_cleaned"
    /\ output_files' =
          WriteFile(WriteFile(WriteFile(output_files,
              "unicef_cleaned.csv", unicef_clean),
              "population_cleaned.csv", population_clean),
              "u5mr_cleaned.csv", u5mr_clean)
    /\ pc' = "cleaned_saved"
    /\ UNCHANGED <<raw_files, merged_again, exit_status, config, raw_frames,
                   clean_frames, inner_merged, merged, coverage_results,
                   results, error>>

\* merge_datasets(cleaned_data), line 238
MergePruningStatusInPlace ==
    /\ pc = "cleaned_saved"
    /\ inner_merged' = MergeInner(unicef_clean, population_clean)
    /\ merged' = MergeDatasets(unicef_clean, population_clean, u5mr_clean)
    /\ LET Pruned(s) == [country_name |-> s.country_name,
                         u5mr_status |-> s.u5mr_status]
       IN u5mr_clean' = Map(u5mr_clean, Pruned)
    /\ pc' = "merged"
    /\ UNCHANGED <<environment, config, raw_frames, unicef_clean,
                   population_clean, coverage_results, results, error>>

Merge ==
    /\ pc = "cleaned_saved"
    /\ inner_merged' = MergeInner(unicef_clean, population_clean)
    /\ merged' = MergeDatasets(unicef_clean, population_clean, u5mr_clean)
    /\ pc' = "merged"
    /\ UNCHANGED <<environment, config, raw_frames, clean_frames, coverage_results,
                   results, error>>

GetResultsForReportingDroppingRows ==
    /\ pc = "merged"
    /\ LET HasStatus(r) == NotNA(r.u5mr_status)
       IN merged' = Filter(merged, HasStatus)
    /\ IF SummaryRaises(ValidData(merged))
       THEN /\ error' = "ValueError"
            /\ pc' = "failed"
            /\ UNCHANGED <<coverage_results, results>>
       ELSE LET calculated == CalculatePopulationWeightedCoverage(merged)
                viz == PrepareDataForVisualization(merged)
            IN /\ coverage_results' = calculated
               /\ IF viz.raised # "none"
                  THEN /\ error' = viz.raised
                       /\ pc' = "failed"
                       /\ UNCHANGED results
                  ELSE /\ results' = ReportingData(calculated, viz.viz_data)
                       /\ pc' = "reported"
                       /\ UNCHANGED error
    /\ UNCHANGED <<environment, config, raw_frames, clean_frames, inner_merged>>

\* CoverageCalculator(merged_data).get_results_for_reporting(),
\* run_analysis.py lines 143-144: the summary raises on a frame without valid
\* rows, the visualization loop raises on an unbound weighted_avg or on
\* weights that sum to zero
GetResultsForReporting ==
    /\ pc = "merged"
    /\ IF SummaryRaises(ValidData(merged))
       THEN /\ error' = "ValueError"
            /\ pc' = "failed"
            /\ UNCHANGED <<coverage_results, results>>
       ELSE LET calculated == CalculatePopulationWeightedCoverage(merged)
                viz == PrepareDataForVisualization(merged)
            IN /\ coverage_results' = calculated
               /\ IF viz.raised # "none"
                  THEN /\ error' = viz.raised
                       /\ pc' = "failed"
                       /\ UNCHANGED results
                  ELSE /\ results' = ReportingData(calculated, viz.viz_data)
                       /\ pc' = "reported"
                       /\ UNCHANGED error
    /\ UNCHANGED <<environment, config, raw_frames, clean_frames, inner_merged, merged>>

\* a second merge_datasets(cleaned_data) on the frames the first one was given
MergeAgain ==
    /\ pc = "merged"
    /\ merged_again' = MergeDatasets(unicef_clean, population_clean, u5mr_clean)
    /\ pc' = "merged_again"
    /\ UNCHANGED <<raw_files, output_files, exit_status, config, raw_frames,
                   clean_frames, inner_merged, merged, coverage_results,
                   results, error>>

\* run_analysis.py lines 155-170: the merged frame is written with to_csv,
\* results (data_for_visualization as a list of records) with json.dump.
\* json.dump raises TypeError on a numpy integer, which the sums and extrema
\* of an integer-typed column are; the file is then left incomplete
ExportForDashboard ==
    /\ pc = "reported"
    /\ LET csv == WriteFile(output_files, "final_merged_dataset.csv",
                            [columns |-> MergedColumns, rows |-> merged])
       IN \E integer_typed \in BOOLEAN :
             IF integer_typed
             THEN /\ output_files' = WriteFile(csv, "analysis_results.json", Incomplete)
                  /\ error' = "TypeError"
                  /\ pc' = "failed"
             ELSE /\ output_files' = WriteFile(csv, "analysis_results.json", results)
                  /\ pc' = "exported"
                  /\ UNCHANGED error
    /\ UNCHANGED <<raw_files, merged_again, exit_status, config, raw_frames,
                   clean_frames, inner_merged, merged, coverage_results, results>>

\* run_analysis.py lines 199-245: after the export main prompts for the
\* dashboard and returns True; every exception of the run, the EOFError of
\* the prompt included, makes main return False and the process exit with 1
ExitIgnoringFailure ==
    /\ pc \in {"exported", "failed"}
    /\ exit_status' = 0
    /\ pc' = "exited"
    /\ UNCHANGED <<raw_files, merged_again, output_files, config, raw_frames,
                   clean_frames, inner_merged, merged, coverage_results, results,
                   error>>

Exit ==
    /\ pc \in {"exported", "failed"}
    /\ \E prompt \in DashboardPrompts :
          IF pc = "failed"
          THEN /\ exit_status' = 1
               /\ UNCHANGED error
          ELSE IF prompt = "EOFError"
          THEN /\ exit_status' = 1
               /\ error' = "EOFError"
          ELSE /\ exit_status' = 0
               /\ UNCHANGED error
    /\ pc' = "exited"
    /\ UNCHANGED <<raw_files, merged_again, output_files, config, raw_frames,
                   clean_frames, inner_merged, merged, coverage_results, results>>

\* _load_population_data on a sheet already read without header (line 291):
\* lines 293-345 choose the header row, read the frame again under it and
\* attach the column mapping
LoadPopulationData ==
    /\ pc = "sheet_read"
    /\ header_row' = FindHeaderRow(df_raw)
    /\ population_raw' = ReadExcel(df_raw, header_row')
    /\ pc' = "population_loaded"
    /\ UNCHANGED <<environment, config, unicef_raw, df_raw, u5mr_raw, clean_frames,
                   inner_merged, merged, coverage_results, results, error>>

----------------------------------------------------------------------------
(* Specification of the pipeline: clean_all_datasets after the three raw
   frames are loaded, then get_results_for_reporting (run_analysis.main) *)

Init ==
    /\ raw_files \in SUBSET RawFiles
    /\ min_year = 2018
    /\ max_year = 2022
    /\ unicef_raw = NotRun
    /\ df_raw = NotRun
    /\ header_row = NotRun
    /\ population_raw = NotRun
    /\ u5mr_raw = NotRun
    /\ unicef_clean = NotRun
    /\ population_clean = NotRun
    /\ u5mr_clean = NotRun
    /\ inner_merged = NotRun
    /\ merged = NotRun
    /\ merged_again = NotRun
    /\ coverage_results = NotRun
    /\ results = NotRun
    /\ output_files = NoFiles
    /\ exit_status = "running"
    /\ error = "none"
    /\ pc = "start"

Next ==
    \/ AnalyzeDataStructure
    \/ LoadRawData
    \/ CleanUnicef
    \/ CleanPopulation
    \/ CleanU5mr
    \/ SaveCleanedDatasets
    \/ Merge
    \/ GetResultsForReporting
    \/ ExportForDashboard
    \/ Exit

Spec == Init /\ [][Next]_vars

----------------------------------------------------------------------------
(* Specification of clean_unicef_data over every bounded input frame *)

InitUnicef ==
    /\ raw_files = RawFiles
    /\ \E w \in YearWindows : min_year = w[1] /\ max_year = w[2]
    /\ unicef_raw \in BoundedSeq(UnicefRawRows, MaxUnicefRows)
    /\ df_raw = NotRun
    /\ header_row = NotRun
    /\ population_raw = EmptyFrame
    /\ u5mr_raw = <<>>
    /\ unicef_clean = NotRun
    /\ population_clean = NotRun
    /\ u5mr_clean = NotRun
    /\ inner_merged = NotRun
    /\ merged = NotRun
    /\ coverage_results = NotRun
    /\ results = NotRun
    /\ merged_again = NotRun
    /\ output_files = NoFiles
    /\ exit_status = "running"
    /\ error = "none"
    /\ pc = "loaded"

NextUnicef == CleanUnicef

SpecUnicef == InitUnicef /\ [][NextUnicef]_vars

----------------------------------------------------------------------------
(* Specification of clean_population_data over every bounded input frame *)

InitPopulation ==
    /\ raw_files = RawFiles
    /\ \E w \in YearWindows : min_year = w[1] /\ max_year = w[2]
    /\ unicef_raw = <<>>
    /\ df_raw = NotRun
    /\ header_row = NotRun
    /\ population_raw \in PopulationFrames
    /\ u5mr_raw = <<>>
    /\ unicef_clean = <<>>
    /\ population_clean = NotRun
    /\ u5mr_clean = NotRun
    /\ inner_merged = NotRun
    /\ merged = NotRun
    /\ coverage_results = NotRun
    /\ results = NotRun
    /\ merged_again = NotRun
    /\ output_files = NoFiles
    /\ exit_status = "running"
    /\ error = "none"
    /\ pc = "unicef_cleaned"

NextPopulation == CleanPopulation

SpecPopulation == InitPopulation /\ [][NextPopulation]_vars

----------------------------------------------------------------------------
(* Specification of clean_u5mr_data over every bounded input frame *)

InitU5mr ==
    /\ raw_files = RawFiles
    /\ min_year = 2018
    /\ max_year = 2022
    /\ unicef_raw = <<>>
    /\ df_raw = NotRun
    /\ header_row = NotRun
    /\ population_raw = EmptyFrame
    /\ u5mr_raw \in BoundedSeq(U5mrRawRows, MaxU5mrRows)
    /\ unicef_clean = <<>>
    /\ population_clean = <<>>
    /\ u5mr_clean = NotRun
    /\ inner_merged = NotRun
    /\ merged = NotRun
    /\ coverage_results = NotRun
    /\ results = NotRun
    /\ merged_again = NotRun
    /\ output_files = NoFiles
    /\ exit_status = "running"
    /\ error = "none"
    /\ pc = "population_cleaned"

NextU5mr == CleanU5mr

SpecU5mr == InitU5mr /\ [][NextU5mr]_vars

----------------------------------------------------------------------------
(* Specification of CoverageCalculator over every bounded merged frame *)

InitCalculator ==
    /\ raw_files = RawFiles
    /\ min_year = 2018
    /\ max_year = 2022
    /\ unicef_raw = <<>>
    /\ df_raw = NotRun
    /\ header_row = NotRun
    /\ population_raw = EmptyFrame
    /\ u5mr_raw = <<>>
    /\ unicef_clean = <<>>
    /\ population_clean = <<>>
    /\ u5mr_clean = <<>>
    /\ inner_merged = <<>>
    /\ merged \in BoundedSeq(MergedRows, MaxMergedRows)
    /\ coverage_results = NotRun
    /\ results = NotRun
    /\ merged_again = NotRun
    /\ output_files = NoFiles
    /\ exit_status = "running"
    /\ error = "none"
    /\ pc = "merged"

NextCalculator == GetResultsForReporting

SpecCalculator == InitCalculator /\ [][NextCalculator]_vars

----------------------------------------------------------------------------
(* Specification of merge_datasets over every bounded triple of cleaned
   frames, with a second invocation on the same frames *)

InitMerge ==
    /\ raw_files = RawFiles
    /\ min_year = 2018
    /\ max_year = 2022
    /\ unicef_raw = <<>>
    /\ df_raw = NotRun
    /\ header_row = NotRun
    /\ population_raw = EmptyFrame
    /\ u5mr_raw = <<>>
    /\ \E nu \in 0..MaxCleanRows :
          \E np \in 0..(MaxCleanRows - nu) :
             \E ns \in 0..(MaxCleanRows - nu - np) :
                /\ unicef_clean \in [1..nu -> CleanCoverageRows]
                /\ population_clean \in [1..np -> CleanBirthsRows]
                /\ u5mr_clean \in [1..ns -> CleanStatusRows]
    /\ IsCleanCoverageFrame(unicef_clean)
    /\ HasNoDuplicateRow(population_clean)
    /\ HasNoDuplicateRow(u5mr_clean)
    /\ inner_merged = NotRun
    /\ merged = NotRun
    /\ merged_again = NotRun
    /\ coverage_results = NotRun
    /\ results = NotRun
    /\ output_files = NoFiles
    /\ exit_status = "running"
    /\ error = "none"
    /\ pc = "cleaned_saved"

NextMerge ==
    \/ Merge
    \/ MergeAgain

SpecMerge == InitMerge /\ [][NextMerge]_vars

----------------------------------------------------------------------------
(* Specification of _load_population_data over every bounded sheet *)

InitLoader ==
    /\ raw_files = RawFiles
    /\ min_year = 2018
    /\ max_year = 2022
    /\ unicef_raw = NotRun
    /\ df_raw \in Workbooks
    /\ header_row = NotRun
    /\ population_raw = NotRun
    /\ u5mr_raw = NotRun
    /\ unicef_clean = NotRun
    /\ population_clean = NotRun
    /\ u5mr_clean = NotRun
    /\ inner_merged = NotRun
    /\ merged = NotRun
    /\ coverage_results = NotRun
    /\ results = NotRun
    /\ merged_again = NotRun
    /\ output_files = NoFiles
    /\ exit_status = "running"
    /\ error = "none"
    /\ pc = "sheet_read"

NextLoader == LoadPopulationData

SpecLoader == InitLoader /\ [][NextLoader]_vars

----------------------------------------------------------------------------
(* Properties of clean_unicef_data *)

\* a function over a finite set with its values computed once
Tabulated(f) == IF f = f THEN f ELSE f

\* the number each raw observation's value converts to
NumberOfRow == Tabulated([r \in UnicefRawRows |-> ToNumeric(r.value)])

\* the (country_name, indicator) pair each raw observation belongs to
PairOfRow ==
    Tabulated([r \in UnicefRawRows |->
                  <<Strip(UnicefDerive(r).country_name), UnicefDerive(r).indicator>>])

\* a candidate row: year inside the window, value numeric and inside [0,100]
IsCandidate(r) ==
    /\ r.year >= min_year /\ r.year <= max_year
    /\ NumberOfRow[r] # None
    /\ Val(NumberOfRow[r]) \in 0..100

CandidatePair(r) == PairOfRow[r]

\* the candidate rows of the raw frame as (pair, year), in frame order
CandidateRows ==
    LET Pick(r) == [pair |-> CandidatePair(r), year |-> r.year]
    IN Map(Filter(unicef_raw, IsCandidate), Pick)

\* C1: after clean_unicef_data the result has exactly one row for every
\* (country_name, indicator) pair with a candidate row, no row for any other
\* pair, and the row's year is the greatest year of the pair's candidates.
C1_DedupMostRecent ==
    pc = "unicef_cleaned" =>
        LET cand == CandidateRows
            keys == Map(unicef_clean, PairKey)
        IN /\ \A i \in 1..Len(cand) :
                 LET hits == {j \in 1..Len(keys) : keys[j] = cand[i].pair}
                 IN /\ Cardinality(hits) = 1
                    /\ \A j \in hits :
                          /\ \E c \in 1..Len(cand) :
                                /\ cand[c].pair = cand[i].pair
                                /\ cand[c].year = unicef_clean[j].year
                          /\ \A c \in 1..Len(cand) :
                                cand[c].pair = cand[i].pair
                                    => cand[c].year <= unicef_clean[j].year
           /\ \A j \in 1..Len(keys) :
                 \E c \in 1..Len(cand) : cand[c].pair = keys[j]

\* two candidates of one pair in different years were reduced to the later one
C1_Witness ==
    /\ pc = "unicef_cleaned"
    /\ LET cand == CandidateRows
       IN \E i, j \in 1..Len(cand) :
             /\ cand[i].pair = cand[j].pair
             /\ cand[i].year < cand[j].year
             /\ Len(unicef_clean) = 1
             /\ PairKey(unicef_clean[1]) = cand[j].pair
             /\ unicef_clean[1].year = cand[j].year


----------------------------------------------------------------------------
(* Properties of clean_population_data *)

\* the (country_name, births, year) read from the raw demographic rows through
\* the resolved columns, in frame order
RawBirths ==
    LET kc == CleanerKeyColumns(population_raw)
        Read(row) ==
            [country_name |-> Strip(Cell(population_raw, row, kc["country"])),
             year |-> Cell(population_raw, row, kc["year"]),
             births |-> ToNumeric(Cell(population_raw, row, kc["births_2022"]))]
    IN Map(population_raw.rows, Read)

Has2022InWindow ==
    /\ min_year <= 2022 /\ 2022 <= max_year
    /\ \E i \in 1..Len(RawBirths) : RawBirths[i].year = 2022

\* C7: when the demographic input has a year-2022 row inside the window,
\* every row returned by clean_population_data carries the country and the
\* births value of some year-2022 input row.
C7_Only2022Slice ==
    (pc = "population_cleaned" /\ Has2022InWindow) =>
        LET raw == RawBirths
        IN \A j \in 1..Len(population_clean) :
              \E i \in 1..Len(raw) :
                 /\ raw[i].year = 2022
                 /\ raw[i].country_name = population_clean[j].country_name
                 /\ raw[i].births = Some(population_clean[j].births_2022)

\* a country with a 2022 row and an older row of another value kept only the
\* 2022 value
C7_Witness ==
    /\ pc = "population_cleaned"
    /\ Has2022InWindow
    /\ LET raw == RawBirths
       IN \E i, k \in 1..Len(raw) :
             /\ raw[i].year = 2022 /\ raw[k].year < 2022
             /\ raw[k].year >= min_year
             /\ raw[i].country_name = raw[k].country_name
             /\ NotNA(raw[i].births) /\ NotNA(raw[k].births)
             /\ Val(raw[k].births) > 0
             /\ raw[i].births # raw[k].births
             /\ Len(population_clean) = 1
             /\ population_clean[1].births_2022 = Val(raw[i].births)

\* C8: the frame returned by clean_population_data has exactly one row per
\* country_name and every row has births_2022 > 0.
C8_OneRowPerCountry ==
    pc = "population_cleaned" =>
        /\ \A i, j \in 1..Len(population_clean) :
              population_clean[i].country_name = population_clean[j].country_name
                  => i = j
        /\ \A i \in 1..Len(population_clean) : population_clean[i].births_2022 > 0

----------------------------------------------------------------------------
(* Properties of clean_u5mr_data *)

HasOnTrackWord(text) ==
    Contains("achieved", Lower(text)) \/ Contains("on-track", Lower(text))

HasOffTrackWord(text) ==
    Contains("acceleration", Lower(text)) \/ Contains("off-track", Lower(text))

\* the class the status text of raw row i was given: the u5mr_status of the
\* cleaned rows that carry the row's trimmed name and code
ClassesGiven(i) ==
    {u5mr_clean[j].u5mr_status : j \in
        {k \in 1..Len(u5mr_clean) :
            /\ u5mr_clean[k].country_name = Strip(u5mr_raw[i].OfficialName)
            /\ u5mr_clean[k].iso3_code = Strip(u5mr_raw[i].ISO3Code)}}

\* C6: every status text is classified, case-insensitively: missing text is
\* unknown, a text with "achieved" or "on-track" is on_track (also when it has
\* an off_track word), otherwise a text with "acceleration" or "off-track" is
\* off_track, anything else (the empty text included) is unknown.
C6_StatusClassification ==
    pc = "u5mr_cleaned" =>
        \A i \in 1..Len(u5mr_raw) :
            LET status == u5mr_raw[i].Status
                expected ==
                    IF status = None THEN "unknown"
                    ELSE IF HasOnTrackWord(Val(status)) THEN "on_track"
                    ELSE IF HasOffTrackWord(Val(status)) THEN "off_track"
                    ELSE "unknown"
            IN /\ expected \in ClassesGiven(i)
               /\ status = Some("Achieved") => "on_track" \in ClassesGiven(i)
               /\ status = Some("Acceleration Needed") => "off_track" \in ClassesGiven(i)
               /\ status \in {Some(""), None} => "unknown" \in ClassesGiven(i)
               /\ Len(u5mr_raw) = 1 => ClassesGiven(i) = {expected}

\* a text with both an on_track and an off_track word was classified on_track
C6_Witness ==
    /\ pc = "u5mr_cleaned"
    /\ Len(u5mr_raw) = 1
    /\ u5mr_raw[1].Status # None
    /\ HasOnTrackWord(Val(u5mr_raw[1].Status))
    /\ HasOffTrackWord(Val(u5mr_raw[1].Status))
    /\ Len(u5mr_clean) = 1
    /\ u5mr_clean[1].u5mr_status = "on_track"

\* C9: the frame returned by clean_u5mr_data has exactly one row per
\* country_name.
C9_OneStatusRowPerCountry ==
    pc = "u5mr_cleaned" =>
        /\ \A i \in 1..Len(u5mr_raw) :
              \E j \in 1..Len(u5mr_clean) :
                 u5mr_clean[j].country_name = Strip(u5mr_raw[i].OfficialName)
        /\ \A i, j \in 1..Len(u5mr_clean) :
              u5mr_clean[i].country_name = u5mr_clean[j].country_name => i = j

----------------------------------------------------------------------------
(* Properties of CoverageCalculator *)

\* sum of f[k] over the indices k in S
RECURSIVE SumOver(_, _)
SumOver(f, S) ==
    IF S = {} THEN 0
    ELSE LET k == CHOOSE k \in S : TRUE IN f[k] + SumOver(f, S \ {k})

\* calculate_population_weighted_coverage has returned
Calculated == DOMAIN coverage_results # {}

\* indices of the merged rows that pass the pre-filter
PreFiltered ==
    {k \in 1..Len(merged) :
        /\ merged[k].coverage_value # None /\ merged[k].births_2022 # None
        /\ Val(merged[k].coverage_value) >= 0 /\ Val(merged[k].coverage_value) <= 100
        /\ Val(merged[k].births_2022) > 0}

CoverageAt == [k \in PreFiltered |-> Val(merged[k].coverage_value)]
BirthsAt == [k \in PreFiltered |-> Val(merged[k].births_2022)]
ProductAt == [k \in PreFiltered |-> CoverageAt[k] * BirthsAt[k]]

IndicatorGroup(i) == {k \in PreFiltered : merged[k].indicator = i}
StatusGroup(s, i) == {k \in IndicatorGroup(i) : merged[k].u5mr_status = Some(s)}

AllIndicators == {merged[k].indicator : k \in 1..Len(merged)}
ReportedStatuses == {"on_track", "off_track"}

\* entry e carries the births-weighted and the simple average of group G
AveragesOf(e, G) ==
    /\ e.births_weighted_avg.den # 0
    /\ e.births_weighted_avg.num * SumOver(BirthsAt, G)
          = SumOver(ProductAt, G) * e.births_weighted_avg.den
    /\ e.simple_avg.den # 0
    /\ e.simple_avg.num * Cardinality(G) = SumOver(CoverageAt, G) * e.simple_avg.den

\* C2: for every non-empty group of pre-filtered rows (per indicator in the
\* overall aggregate, per (status, indicator) in the status aggregate)
\* births_weighted_avg is sum(coverage * births) / sum(births) over exactly
\* the group's rows and simple_avg is the unweighted mean of coverage.
C2_WeightedAverageDefinition ==
    Calculated =>
        /\ \A i \in AllIndicators :
              IndicatorGroup(i) # {} =>
                 /\ i \in DOMAIN coverage_results.overall
                 /\ AveragesOf(coverage_results.overall[i], IndicatorGroup(i))
        /\ \A s \in ReportedStatuses : \A i \in AllIndicators :
              StatusGroup(s, i) # {} =>
                 /\ s \in DOMAIN coverage_results.by_status
                 /\ i \in DOMAIN coverage_results.by_status[s]
                 /\ AveragesOf(coverage_results.by_status[s][i], StatusGroup(s, i))

\* the group [(70, 1000), (90, 500)] was given 115000/1500 and 80
C2_Witness ==
    /\ Calculated
    /\ \E i \in AllIndicators :
          /\ {<<CoverageAt[k], BirthsAt[k]>> : k \in IndicatorGroup(i)}
                = {<<70, 1000>>, <<90, 500>>}
          /\ Cardinality(IndicatorGroup(i)) = 2
          /\ FracEq(coverage_results.overall[i].births_weighted_avg, Frac(115000, 1500))
          /\ FracEq(coverage_results.overall[i].simple_avg, Frac(80, 1))

\* min <= average <= max of one reported entry, without division
WithinRange(e) ==
    /\ e.min_coverage * e.births_weighted_avg.den <= e.births_weighted_avg.num
    /\ e.births_weighted_avg.num <= e.max_coverage * e.births_weighted_avg.den
    /\ e.min_coverage * e.simple_avg.den <= e.simple_avg.num
    /\ e.simple_avg.num <= e.max_coverage * e.simple_avg.den

\* the entry's totals are those of group G: the weighted average is the
\* quotient of sum(c*w) and sum(w), the simple average that of sum(c) and n
TotalsOf(e, G) ==
    /\ e.births_weighted_avg = Frac(SumOver(ProductAt, G), SumOver(BirthsAt, G))
    /\ e.simple_avg = Frac(SumOver(CoverageAt, G), Cardinality(G))
    /\ \A k \in G : e.min_coverage <= CoverageAt[k] /\ CoverageAt[k] <= e.max_coverage
    /\ \E k \in G : e.min_coverage = CoverageAt[k]
    /\ \E k \in G : e.max_coverage = CoverageAt[k]

\* C3: for every group reported in overall and in by_status,
\* min*sum(w) <= sum(c*w) <= max*sum(w) and min*n <= sum(c) <= max*n.
C3_AveragesWithinRange ==
    Calculated =>
        /\ \A i \in DOMAIN coverage_results.overall :
              /\ TotalsOf(coverage_results.overall[i], IndicatorGroup(i))
              /\ WithinRange(coverage_results.overall[i])
        /\ \A s \in DOMAIN coverage_results.by_status :
              \A i \in DOMAIN coverage_results.by_status[s] :
                 /\ TotalsOf(coverage_results.by_status[s][i], StatusGroup(s, i))
                 /\ WithinRange(coverage_results.by_status[s][i])

\* a group of two rows with different coverage has both averages strictly
\* between its minimum and its maximum
C3_Witness ==
    /\ Calculated
    /\ \E i \in DOMAIN coverage_results.overall :
          LET e == coverage_results.overall[i]
          IN /\ e.min_coverage < e.max_coverage
             /\ e.min_coverage * e.births_weighted_avg.den < e.births_weighted_avg.num
             /\ e.births_weighted_avg.num < e.max_coverage * e.births_weighted_avg.den

----------------------------------------------------------------------------
(* Properties of merge_datasets *)

Min(a, b) == IF a <= b THEN a ELSE b

CountriesOf(rows) == {rows[k].country_name : k \in 1..Len(rows)}

\* C4 as stated: the inner join step yields at most
\* min(number of coverage rows, number of births rows) rows.
C4_JoinRowsAtMostMin ==
    pc \in {"merged", "reported"} =>
        Len(inner_merged) <= Min(Len(unicef_clean), Len(population_clean))

\* C4 amended: the rows of the inner join step are those of the countries
\* that occur in both frames, and the number of distinct countries among them
\* is at most min(number of coverage rows, number of births rows).
C4_JoinCountriesAtMostMin ==
    pc \in {"merged", "reported"} =>
        /\ CountriesOf(inner_merged)
              = CountriesOf(unicef_clean) \cap CountriesOf(population_clean)
        /\ Cardinality(CountriesOf(inner_merged))
              <= Min(Len(unicef_clean), Len(population_clean))

\* the join kept one country, dropped another one, and produced more rows
\* than the births frame has
C4_Witness ==
    /\ pc = "merged"
    /\ CountriesOf(inner_merged) # {}
    /\ CountriesOf(unicef_clean) \ CountriesOf(inner_merged) # {}
    /\ Len(inner_merged) > Len(population_clean)

StatusCountries == CountriesOf(u5mr_clean)

\* C5 as stated: every row of the merged frame has u5mr_status on_track,
\* off_track or unknown, never a missing value.
C5_StatusNeverMissing ==
    pc \in {"merged", "reported"} =>
        \A k \in 1..Len(merged) :
            merged[k].u5mr_status \in {Some("on_track"), Some("off_track"), Some("unknown")}

\* C5 amended: every row of the merged frame has u5mr_status on_track,
\* off_track, unknown or missing; it is missing exactly for the rows whose
\* country has no row in the status frame, and otherwise it is a status the
\* status frame gives for that country.
C5_StatusKnownOrMissing ==
    pc \in {"merged", "reported"} =>
        \A k \in 1..Len(merged) :
            /\ merged[k].u5mr_status
                  \in {Some("on_track"), Some("off_track"), Some("unknown"), None}
            /\ merged[k].u5mr_status = None
                  <=> merged[k].country_name \notin StatusCountries
            /\ merged[k].u5mr_status # None =>
                  \E j \in 1..Len(u5mr_clean) :
                     /\ u5mr_clean[j].country_name = merged[k].country_name
                     /\ Some(u5mr_clean[j].u5mr_status) = merged[k].u5mr_status

\* a merged row of a country without status row, although the status frame
\* has rows of other countries
C5_Witness ==
    /\ pc = "merged"
    /\ u5mr_clean # <<>>
    /\ \E k \in 1..Len(merged) :
          /\ merged[k].u5mr_status = None
          /\ merged[k].country_name \notin StatusCountries

----------------------------------------------------------------------------
(* Properties of the status-grouped aggregates *)

HasKnownStatus(r) == ~(r.u5mr_status = None \/ r.u5mr_status = Some("unknown"))

\* the merged frame without its rows of unknown or missing status
KnownRows == Filter(merged, HasKnownStatus)

\* the indicator-only aggregate counts the rows of every status
OverallCountsEveryStatus ==
    \A i \in AllIndicators :
        IndicatorGroup(i) # {} =>
            LET e == coverage_results.overall[i]
                G == IndicatorGroup(i)
            IN /\ e.total_births = SumOver(BirthsAt, G)
               /\ e.num_countries = Cardinality({merged[k].country_name : k \in G})
               /\ TotalsOf(e, G)

\* by_status and the status_comparison of by_indicator are what they would be
\* without the rows of unknown or missing status
StatusAggregatesIgnoreUnknown ==
    /\ coverage_results.by_status = CalculateByU5mrStatus(ValidData(KnownRows))
    /\ DOMAIN coverage_results.by_status \subseteq ReportedStatuses
    /\ \A i \in DOMAIN coverage_results.by_indicator :
          /\ coverage_results.by_indicator[i].status_comparison
                = StatusComparison(WithIndicator(ValidData(KnownRows), i))
          /\ DOMAIN coverage_results.by_indicator[i].status_comparison
                \subseteq ReportedStatuses

\* data_for_visualization is what it would be without those rows
VisualizationIgnoresUnknown ==
    /\ PrepareDataForVisualization(KnownRows).raised = "none"
    /\ results.data_for_visualization = PrepareDataForVisualization(KnownRows).viz_data

\* the part of C10 about by_status, status_comparison and overall_coverage
C10_AggregatesPart ==
    Calculated => StatusAggregatesIgnoreUnknown /\ OverallCountsEveryStatus

\* C10: a merged row of unknown or missing status contributes to no entry of
\* by_status, of the status_comparison of by_indicator and of
\* data_for_visualization, and contributes to its indicator's entry of
\* overall_coverage.
C10_UnknownOnlyInOverall ==
    pc = "reported" =>
        /\ StatusAggregatesIgnoreUnknown
        /\ OverallCountsEveryStatus
        /\ VisualizationIgnoresUnknown

----------------------------------------------------------------------------
(* Properties of the pre-filter *)

\* the reporting data of a frame, when no step raises
ReportOf(data) ==
    ReportingData(CalculatePopulationWeightedCoverage(data),
                  PrepareDataForVisualization(data).viz_data)

\* the part of C11 about overall_coverage, by_status and summary: they are
\* those of the frame without the rows that fail the pre-filter
FilteredRowsNotInAggregates ==
    pc = "reported" =>
        LET clean == ReportOf(ValidData(merged))
        IN /\ results.overall_coverage = clean.overall_coverage
           /\ results.by_status = clean.by_status
           /\ results.summary = clean.summary

\* C11: a merged row with missing coverage_value, coverage_value outside
\* [0,100], missing births_2022 or births_2022 <= 0 contributes to none of
\* overall_coverage, by_status, summary and data_for_visualization: the
\* reporting data is that of the frame without such rows.
C11_FilteredRowsContributeNowhere ==
    pc = "reported" =>
        /\ PrepareDataForVisualization(ValidData(merged)).raised = "none"
        /\ results = ReportOf(ValidData(merged))

----------------------------------------------------------------------------
(* Properties of merge_datasets on cleaned frames *)

----------------------------------------------------------------------------
(* Properties of the exported structures *)

ResultParts ==
    {"overall_coverage", "by_status", "by_indicator", "summary",
     "data_for_visualization"}

\* C13: the structure returned by get_results_for_reporting, and the one
\* written to analysis_results.json, contains the five parts overall_coverage,
\* by_status, by_indicator, summary and data_for_visualization.
C13_ResultsHaveFiveParts ==
    /\ pc \in {"reported", "exported"} => ResultParts \subseteq DOMAIN results
    /\ pc = "exported" =>
          ResultParts \subseteq DOMAIN output_files["analysis_results.json"]

ExportColumns ==
    {"country_name", "iso3_code", "indicator", "year", "coverage_value",
     "births_2022", "u5mr_status", "indicator_full_name"}

\* C14: the merged frame, and final_merged_dataset.csv, has exactly the
\* columns country_name, iso3_code, indicator, year, coverage_value,
\* births_2022, u5mr_status and indicator_full_name.
C14_MergedColumnsAsSpecified ==
    /\ pc \in {"merged", "reported", "exported"} =>
          \A k \in 1..Len(merged) : DOMAIN merged[k] = ExportColumns
    /\ pc = "exported" =>
          Range(output_files["final_merged_dataset.csv"].columns) = ExportColumns

\* the countries of the births frame
BirthsCountries == CountriesOf(population_clean)

\* merged row m carries the cells of coverage row u
CarriesCoverageRow(m, u) ==
    /\ m.country_name = u.country_name
    /\ m.indicator = u.indicator
    /\ m.iso3_code_x = u.iso3_code
    /\ m.year = u.year
    /\ m.coverage_value = Some(u.coverage_value)

\* merged row m without its u5mr_status column
WithoutStatus(m) == [c \in DOMAIN m \ {"u5mr_status"} |-> m[c]]

\* C15: merge_datasets returns a row for a coverage row exactly when a births
\* row has the same country_name string; the other coverage rows and the
\* births rows without coverage row are dropped without error; the left join
\* with the status frame removes no row of the inner join.
C15_ExactNameJoin ==
    pc \in {"merged", "merged_again"} =>
        /\ error = "none"
        /\ \A i \in 1..Len(unicef_clean) :
              (\E k \in 1..Len(merged) : CarriesCoverageRow(merged[k], unicef_clean[i]))
                 <=> unicef_clean[i].country_name \in BirthsCountries
        /\ \A k \in 1..Len(merged) :
              /\ \E i \in 1..Len(unicef_clean) :
                    CarriesCoverageRow(merged[k], unicef_clean[i])
              /\ \E j \in 1..Len(population_clean) :
                    /\ population_clean[j].country_name = merged[k].country_name
                    /\ population_clean[j].iso3_code = merged[k].iso3_code_y
                    /\ Some(population_clean[j].births_2022) = merged[k].births_2022
        /\ \A k \in 1..Len(inner_merged) :
              \E j \in 1..Len(merged) : WithoutStatus(merged[j]) = inner_merged[k]
        /\ Len(merged) >= Len(inner_merged)

\* a coverage row of "kenya" found no births row although "Kenya" has one,
\* a births row found no coverage row, and another coverage row was merged
C15_Witness ==
    /\ pc = "merged"
    /\ "kenya" \in CountriesOf(unicef_clean) \ CountriesOf(merged)
    /\ "Kenya" \in BirthsCountries
    /\ BirthsCountries \ CountriesOf(unicef_clean) # {}
    /\ merged # <<>>

----------------------------------------------------------------------------
(* Properties of the composite fields and of the row filters of
   clean_unicef_data *)

HasColon(s) == FirstIndex(":", s) # 0

\* the part of s before its first colon, and the trimmed part behind it
BeforeFirstColon(s) == SubSeq(s, 1, FirstIndex(":", s) - 1)
AfterFirstColon(s) == Strip(SubSeq(s, FirstIndex(":", s) + 1, Len(s)))

\* C16: for a frame of one surviving row, iso3_code is the part of the area
\* string before its first colon and country_name the trimmed part behind
\* it; an area string without colon is the country_name (compared here after
\* trimming) with iso3_code "UNKNOWN"; for every string.
C16_SplitOnFirstColon ==
    (pc = "unicef_cleaned" /\ Len(unicef_raw) = 1 /\ IsCandidate(unicef_raw[1])) =>
        LET area == unicef_raw[1].area
        IN /\ Len(unicef_clean) = 1
           /\ unicef_clean[1].country_name =
                 (IF HasColon(area) THEN AfterFirstColon(area) ELSE Strip(area))
           /\ unicef_clean[1].iso3_code =
                 (IF HasColon(area) THEN Strip(BeforeFirstColon(area)) ELSE "UNKNOWN")

\* the part of C16 that holds: area strings with text on both sides of the
\* first colon, and area strings without colon
SplitOfOrdinaryAreas ==
    (/\ pc = "unicef_cleaned" /\ Len(unicef_raw) = 1 /\ IsCandidate(unicef_raw[1])
     /\ LET area == unicef_raw[1].area
        IN HasColon(area) => BeforeFirstColon(area) # "" /\ AfterFirstColon(area) # "")
      => LET area == unicef_raw[1].area
         IN /\ Len(unicef_clean) = 1
            /\ unicef_clean[1].country_name =
                  (IF HasColon(area) THEN AfterFirstColon(area) ELSE Strip(area))
            /\ unicef_clean[1].iso3_code =
                  (IF HasColon(area) THEN Strip(BeforeFirstColon(area)) ELSE "UNKNOWN")

----------------------------------------------------------------------------
(* Properties of a run of main *)

\* the files a run writes
RunOutputs ==
    {"unicef_cleaned.csv", "population_cleaned.csv", "u5mr_cleaned.csv",
     "final_merged_dataset.csv", "analysis_results.json"}

\* no cleaning, merging or aggregation stage has run
NoStageRan ==
    /\ unicef_clean = NotRun /\ population_clean = NotRun /\ u5mr_clean = NotRun
    /\ inner_merged = NotRun /\ merged = NotRun
    /\ coverage_results = NotRun /\ results = NotRun

\* C17: when one of the three raw files is absent, no cleaning, merging or
\* aggregation stage runs, none of the cleaned CSVs, final_merged_dataset.csv
\* and analysis_results.json is written, and the process exits with a
\* non-zero status.
C17_MissingFileAborts ==
    raw_files # RawFiles =>
        /\ NoStageRan
        /\ DOMAIN output_files \cap RunOutputs = {}
        /\ pc \in {"start", "failed", "exited"}
        /\ pc = "failed" => error = "FileNotFoundError"
        /\ pc = "exited" => exit_status = 1 /\ error = "FileNotFoundError"

\* a run without the classification file has exited with status 1
C17_Witness ==
    /\ raw_files = RawFiles \ {"u5mr"}
    /\ pc = "exited"
    /\ exit_status = 1
    /\ error = "FileNotFoundError"
    /\ output_files = NoFiles

----------------------------------------------------------------------------
(* Properties of the required columns of clean_population_data *)

\* the error message names label l
Names(message, l) == Contains("'" \o l \o "'", message)

RequiredLabels == {"country", "year", "births_2022"}

\* C18: clean_population_data fails, with an error naming exactly the missing
\* labels and without returning a frame, whenever the resolved column
\* mapping lacks one of country, year and births_2022, and proceeds only
\* when the three are resolved.
C18_MissingLabelsNamed ==
    pc \in {"population_cleaned", "failed"} =>
        LET resolved == DOMAIN CleanerKeyColumns(population_raw)
        IN /\ pc = "failed" <=> ~(RequiredLabels \subseteq resolved)
           /\ pc = "failed" =>
                 /\ population_clean = NotRun
                 /\ Contains("ValueError", error)
                 /\ \A l \in RequiredLabels : Names(error, l) <=> l \notin resolved
           /\ pc = "population_cleaned" => error = "none"

\* a frame whose headers resolve year and births_2022 but not country was
\* refused with a message that names country only
C18_Witness ==
    /\ pc = "failed"
    /\ population_clean = NotRun
    /\ DOMAIN CleanerKeyColumns(population_raw) \cap RequiredLabels
          = {"year", "births_2022"}
    /\ Names(error, "country")
    /\ ~Names(error, "year")

----------------------------------------------------------------------------
(* Properties of the row filters of clean_unicef_data *)


\* C19: every row returned by clean_unicef_data has min_year <= year <=
\* max_year and 0 <= coverage_value <= 100 and carries the year and value of a
\* raw row; a raw row inside both ranges, their ends included, is kept (alone
\* in its frame it is the result, otherwise its pair is in the result), and a
\* raw row outside is dropped.
C19_WindowAndRangeInclusive ==
    pc = "unicef_cleaned" =>
        /\ \A k \in 1..Len(unicef_clean) :
              /\ min_year <= unicef_clean[k].year /\ unicef_clean[k].year <= max_year
              /\ 0 <= unicef_clean[k].coverage_value
              /\ unicef_clean[k].coverage_value <= 100
              /\ \E i \in 1..Len(unicef_raw) :
                    /\ unicef_raw[i].year = unicef_clean[k].year
                    /\ NumberOfRow[unicef_raw[i]] = Some(unicef_clean[k].coverage_value)
        /\ \A i \in 1..Len(unicef_raw) :
              LET r == unicef_raw[i]
                  inside == /\ min_year <= r.year /\ r.year <= max_year
                            /\ NotNA(NumberOfRow[r])
                            /\ 0 <= Val(NumberOfRow[r])
                            /\ Val(NumberOfRow[r]) <= 100
              IN /\ inside => \E k \in 1..Len(unicef_clean) :
                                 PairKey(unicef_clean[k]) = PairOfRow[r]
                 /\ (inside /\ Len(unicef_raw) = 1) =>
                       /\ Len(unicef_clean) = 1
                       /\ unicef_clean[1].year = r.year
                       /\ Some(unicef_clean[1].coverage_value) = NumberOfRow[r]
                 /\ (~inside /\ Len(unicef_raw) = 1) => unicef_clean = <<>>

\* a row of year max_year with value 100 was kept next to a dropped row with
\* value 101
C19_Witness ==
    /\ pc = "unicef_cleaned"
    /\ Len(unicef_raw) = 2
    /\ \E i \in 1..2 : unicef_raw[i].value = "101"
    /\ Len(unicef_clean) = 1
    /\ unicef_clean[1].year = max_year
    /\ unicef_clean[1].coverage_value = 100

\* observation values that are not numbers
NonNumericValues == {"n/a", ""}

\* the frame without its row i
WithoutRow(rows, i) == SubSeq(rows, 1, i - 1) \o SubSeq(rows, i + 1, Len(rows))

\* C20: a row whose observation value is not numeric is dropped without
\* error, and the result is the result for the frame without that row.
C20_NonNumericRowDropped ==
    pc = "unicef_cleaned" =>
        /\ error = "none"
        /\ \A i \in 1..Len(unicef_raw) :
              unicef_raw[i].value \in NonNumericValues =>
                 /\ unicef_clean =
                       CleanUnicefData(WithoutRow(unicef_raw, i), min_year, max_year)
                 /\ Len(unicef_raw) = 1 => unicef_clean = <<>>

\* the most recent row of a pair has no numeric value: the older row of the
\* pair is the result
C20_Witness ==
    /\ pc = "unicef_cleaned"
    /\ Len(unicef_raw) = 2
    /\ \E i, j \in 1..2 :
          /\ unicef_raw[i].value \in NonNumericValues
          /\ unicef_raw[j].value \notin NonNumericValues
          /\ unicef_raw[j].year < unicef_raw[i].year
          /\ CandidatePair(unicef_raw[i]) = CandidatePair(unicef_raw[j])
          /\ Len(unicef_clean) = 1
          /\ unicef_clean[1].year = unicef_raw[j].year

----------------------------------------------------------------------------
(* The degraded mode of clean_population_data *)

\* the raw demographic rows whose year lies inside the window
WindowedBirths ==
    LET InWindow(r) == InYearWindow(r.year, min_year, max_year)
    IN Filter(RawBirths, InWindow)

\* every returned row carries the country and births of a row of `rows`
DrawnFrom(rows) ==
    \A j \in 1..Len(population_clean) :
       \E i \in 1..Len(rows) :
          /\ rows[i].country_name = population_clean[j].country_name
          /\ rows[i].births = Some(population_clean[j].births_2022)

\* every row of `rows` with positive births is returned
AllReturned(rows) ==
    \A i \in 1..Len(rows) :
       (NotNA(rows[i].births) /\ Val(rows[i].births) > 0) =>
          \E j \in 1..Len(population_clean) :
             /\ rows[i].country_name = population_clean[j].country_name
             /\ rows[i].births = Some(population_clean[j].births_2022)

\* C21: clean_population_data falls back to the rows of every year of the
\* window exactly when no year-2022 row is left by the window filter, whatever
\* the births cells of the 2022 rows hold: with a 2022 row in the window the
\* result is the valid 2022 rows only, without one it is the valid rows of
\* the window.
C21_DegradedModeIffNo2022 ==
    pc = "population_cleaned" =>
        LET windowed == WindowedBirths
            Is2022(r) == r.year = 2022
            slice == Filter(windowed, Is2022)
        IN IF slice # <<>>
           THEN DrawnFrom(slice) /\ AllReturned(slice)
           ELSE DrawnFrom(windowed) /\ AllReturned(windowed)

\* a 2022 row without usable births next to an older row with births: no
\* fallback, nothing is returned
C21_WitnessNoFallback ==
    /\ pc = "population_cleaned"
    /\ LET windowed == WindowedBirths
       IN \E i, k \in 1..Len(windowed) :
             /\ windowed[i].year = 2022
             /\ ~(NotNA(windowed[i].births) /\ Val(windowed[i].births) > 0)
             /\ windowed[k].year < 2022
             /\ NotNA(windowed[k].births) /\ Val(windowed[k].births) > 0
    /\ Len(population_raw.rows) = 2
    /\ population_clean = <<>>

----------------------------------------------------------------------------
(* Properties of _load_population_data *)

\* the columns of the loaded frame whose header matches the patterns of a label
MatchingColumns(label) ==
    {i \in 1..Len(population_raw.columns) :
        LoaderLabel(population_raw.columns[i]) = label}

\* C22: a label matched by several header cells is mapped to the first
\* matching column in column order.
C22_FirstMatchWins ==
    pc = "population_loaded" =>
        \A label \in Labels :
           MatchingColumns(label) # {} =>
              /\ label \in DOMAIN population_raw.key_columns
              /\ \E i \in MatchingColumns(label) :
                    /\ \A j \in MatchingColumns(label) : i <= j
                    /\ population_raw.key_columns[label] = population_raw.columns[i]

\* a label matched by one header cell only is mapped to that column
SingleMatchResolved ==
    pc = "population_loaded" =>
        \A label \in Labels :
           Cardinality(MatchingColumns(label)) = 1 =>
              \E i \in MatchingColumns(label) :
                 population_raw.key_columns[label] = population_raw.columns[i]

\* the rows of the scanned range that hold the anchor phrase
AnchorRows ==
    {i \in 15..19 : i < Len(df_raw) /\ HasAnchor(df_raw[i + 1])}

\* C23: the header row is the lowest row of the scanned range (rows 15 to 19
\* that exist) with the anchor phrase in a cell, in any case, and row 16 when
\* no row of the range has it; the frame is read under that row.
C23_LowestAnchorRowOrDefault ==
    pc = "population_loaded" =>
        /\ AnchorRows # {} =>
              /\ header_row \in AnchorRows
              /\ \A i \in AnchorRows : header_row <= i
        /\ AnchorRows = {} => header_row = 16
        /\ population_raw.columns = df_raw[header_row + 1]

\* a sheet shorter than the scanned range with two anchor rows in the range,
\* not the first one scanned, and anchor rows outside the range
C23_Witness ==
    /\ pc = "population_loaded"
    /\ Len(df_raw) < 20
    /\ Cardinality(AnchorRows) >= 2
    /\ header_row = 17
    /\ HasAnchor(df_raw[15])
    /\ population_raw.columns = UpperHeaders

----------------------------------------------------------------------------
(* The positional fallbacks of the demographic source *)

\* no header of the frame matches a pattern of either resolver
NoLabelResolves ==
    /\ \A i \in 1..Len(population_raw.columns) :
          /\ LoaderLabel(population_raw.columns[i]) = ""
          /\ CleanerLabel(population_raw.columns[i]) = ""
    /\ "Year " \notin Range(population_raw.columns)

\* country, year and births assigned by position
PositionalColumns ==
    [l \in {"country", "year", "births_2022"} |->
        CASE l = "country" -> population_raw.columns[3]
          [] l = "year" -> population_raw.columns[11]
          [] l = "births_2022" -> population_raw.columns[12]]

ProcessedPositionally ==
    /\ pc = "population_cleaned"
    /\ population_clean =
          CleanPopulationData(population_raw, PositionalColumns, min_year, max_year)

\* C24: when no label resolves from the header text, a frame of at least
\* twelve columns is processed with country, year and births taken by
\* position, whether the loader attached a mapping or not, and a narrower
\* frame ends in the error naming the missing columns.
C24_PositionalFallbackProceeds ==
    (pc \in {"population_cleaned", "failed"} /\ NoLabelResolves) =>
        IF Len(population_raw.columns) >= 12
        THEN ProcessedPositionally
        ELSE pc = "failed" /\ error = MissingColsError(RequiredCols)

\* the same for the frames that carry the loader's mapping
LoaderFallbackProceeds ==
    (/\ pc \in {"population_cleaned", "failed"}
     /\ NoLabelResolves
     /\ (DOMAIN population_raw.key_columns # {} \/ Len(population_raw.columns) < 12)) =>
        IF Len(population_raw.columns) >= 12
        THEN ProcessedPositionally
        ELSE pc = "failed" /\ error = MissingColsError(RequiredCols)

\* a frame of twelve unnamed columns with the loader's mapping was cleaned
LoaderFallbackReached ==
    /\ pc = "population_cleaned"
    /\ NoLabelResolves
    /\ Len(population_clean) > 0

----------------------------------------------------------------------------
(* Properties of data_for_visualization *)

\* the rows of data_for_visualization for one (indicator, status) pair
VizRowsOf(indicator, status) ==
    {k \in 1..Len(results.data_for_visualization) :
        /\ results.data_for_visualization[k].indicator = indicator
        /\ results.data_for_visualization[k].u5mr_status = status}

\* C25: on a merged frame whose rows all pass the pre-filter,
\* data_for_visualization has exactly one row for every (indicator, status)
\* pair with status on_track or off_track that has a merged row, no row for a
\* pair without merged rows, and the row's coverage_value is the
\* births-weighted average of the pair's rows.
C25_OneVizRowPerPopulatedPair ==
    (pc = "reported" /\ merged = ValidData(merged)) =>
        \A indicator \in Range(Column(merged, Indicator)) \cup
                          {results.data_for_visualization[k].indicator :
                              k \in 1..Len(results.data_for_visualization)} :
           \A status \in {"on_track", "off_track"} :
              LET subset == VizSubset(merged, <<indicator, status>>)
              IN IF subset = <<>>
                 THEN VizRowsOf(indicator, status) = {}
                 ELSE /\ Cardinality(VizRowsOf(indicator, status)) = 1
                      /\ \A k \in VizRowsOf(indicator, status) :
                            LET row == results.data_for_visualization[k]
                            IN /\ row.coverage_value.kind = "value"
                               /\ FracEq(row.coverage_value.avg, WeightedAverage(subset))

\* the rows of data_for_visualization of the pairs that have merged rows are
\* as C25 says
PopulatedPairsAveraged ==
    (pc = "reported" /\ merged = ValidData(merged)) =>
        \A k \in 1..Len(results.data_for_visualization) :
           LET row == results.data_for_visualization[k]
               subset == VizSubset(merged, <<row.indicator, row.u5mr_status>>)
           IN /\ row.u5mr_status \in {"on_track", "off_track"}
              /\ subset # <<>> =>
                    /\ Cardinality(VizRowsOf(row.indicator, row.u5mr_status)) = 1
                    /\ row.coverage_value.kind = "value"
                    /\ FracEq(row.coverage_value.avg, WeightedAverage(subset))

----------------------------------------------------------------------------
(* An empty join *)

\* merge_datasets returned a frame without rows although both the coverage
\* frame and the births frame have rows: no country name is in both
EmptyJoin ==
    /\ pc = "merged"
    /\ unicef_clean # <<>>
    /\ population_clean # <<>>
    /\ merged = <<>>

\* C26: an empty join does not abort the run: the step after a merge that
\* returned no rows is the aggregation, and it ends without an error.
C26_EmptyJoinDoesNotAbort ==
    [][EmptyJoin => (pc' = "reported" /\ error' = "none")]_vars

\* merge_datasets itself returns the empty frame without raising
EmptyJoinReturned ==
    (/\ pc = "merged"
     /\ \A i \in 1..Len(unicef_clean) : \A j \in 1..Len(population_clean) :
           unicef_clean[i].country_name # population_clean[j].country_name) =>
        merged = <<>> /\ error = "none"

----------------------------------------------------------------------------
(* num_countries *)

\* the distinct countries of a set of rows of the merged frame
GroupCountries(group) == {merged[k].country_name : k \in group}

\* num_countries of every aggregate is the number of distinct countries of
\* its group
NumCountriesIsDistinctCount ==
    pc = "reported" =>
        /\ \A indicator \in DOMAIN results.overall_coverage :
              results.overall_coverage[indicator].num_countries =
                 Cardinality(GroupCountries(IndicatorGroup(indicator)))
        /\ \A status \in DOMAIN results.by_status :
              \A indicator \in DOMAIN results.by_status[status] :
                 results.by_status[status][indicator].num_countries =
                    Cardinality(GroupCountries(StatusGroup(status, indicator)))

\* C27: num_countries of every aggregate is the number of distinct countries
\* of its group, and in the merged frame of the pipeline no country appears
\* twice for one indicator, so that num_countries is the group's row count.
C27_NumCountriesIsRowCount ==
    pc = "reported" =>
        /\ NumCountriesIsDistinctCount
        /\ \A i, j \in 1..Len(merged) :
              (/\ merged[i].country_name = merged[j].country_name
               /\ merged[i].indicator = merged[j].indicator) => i = j
        /\ \A indicator \in DOMAIN results.overall_coverage :
              results.overall_coverage[indicator].num_countries =
                 Cardinality(IndicatorGroup(indicator))
        /\ \A status \in DOMAIN results.by_status :
              \A indicator \in DOMAIN results.by_status[status] :
                 results.by_status[status][indicator].num_countries =
                    Cardinality(StatusGroup(status, indicator))

----------------------------------------------------------------------------
(* The merged frame during aggregation and export *)

\* the frame merge_datasets returned for the cleaned frames of the run
MergeReturned == MergeDatasets(unicef_clean, population_clean, u5mr_clean)

\* C28: aggregation leaves the merged frame as merge_datasets returned it:
\* after get_results_for_reporting, whether it ended or raised, the frame has
\* the same rows in the same order with the same values and columns, and the
\* rows written to final_merged_dataset.csv are those rows.
C28_MergedFrameUnchanged ==
    /\ (pc \in {"reported", "exported"} \/ (pc = "failed" /\ coverage_results # NotRun)) =>
          merged = MergeReturned
    /\ "final_merged_dataset.csv" \in DOMAIN output_files =>
          /\ output_files["final_merged_dataset.csv"].rows = MergeReturned
          /\ \A k \in 1..Len(merged) :
                DOMAIN merged[k] = Range(output_files["final_merged_dataset.csv"].columns)

\* a merged frame of several rows went through aggregation, which produced
\* rows for the visualization, and was exported
C28_Witness ==
    /\ pc = "exported"
    /\ "final_merged_dataset.csv" \in DOMAIN output_files
    /\ Len(merged) >= 2
    /\ Len(results.data_for_visualization) > 0

----------------------------------------------------------------------------
(* The groups a births-weighted average is computed on *)

\* a group a weighted average may be computed on: it has a row, and every
\* row has births, all of them positive
IsWeightable(rows) ==
    /\ rows # <<>>
    /\ \A k \in 1..Len(rows) : NotNA(rows[k].births_2022) /\ Val(rows[k].births_2022) > 0

\* the groups averaged by _calculate_overall_coverage, _calculate_by_u5mr_status
\* and _calculate_by_indicator are weightable
AggregateGroupsWeightable ==
    coverage_results # NotRun =>
        LET valid_data == ValidData(merged)
        IN /\ \A indicator \in DOMAIN coverage_results.overall :
                 IsWeightable(WithIndicator(valid_data, indicator))
           /\ \A status \in DOMAIN coverage_results.by_status :
                 \A indicator \in DOMAIN coverage_results.by_status[status] :
                    IsWeightable(WithIndicator(WithStatusValue(valid_data, status),
                                               indicator))
           /\ \A indicator \in DOMAIN coverage_results.by_indicator :
                 \A status \in DOMAIN coverage_results.by_indicator[indicator].status_comparison :
                    IsWeightable(WithStatusValue(WithIndicator(valid_data, indicator),
                                                 status))

\* C29: during get_results_for_reporting no births-weighted average is
\* computed on a group without rows or without positive births: the groups
\* of the three aggregations and the non-empty (indicator, status) subsets
\* of the visualization are weightable, and no average fails on weights
\* that sum to zero.
C29_AveragesOnlyOnWeightableGroups ==
    /\ AggregateGroupsWeightable
    /\ error # "ZeroDivisionError"
    /\ pc = "reported" =>
          \A k \in 1..Len(VizPairs(merged)) :
             LET subset == VizSubset(merged, VizPairs(merged)[k])
             IN subset # <<>> => IsWeightable(subset)

----------------------------------------------------------------------------
(* The two status breakdowns *)

\* by_status[status][indicator] exists
InByStatus(status, indicator) ==
    /\ status \in DOMAIN coverage_results.by_status
    /\ indicator \in DOMAIN coverage_results.by_status[status]

\* by_indicator[indicator].status_comparison[status] exists
InStatusComparison(status, indicator) ==
    /\ indicator \in DOMAIN coverage_results.by_indicator
    /\ status \in DOMAIN coverage_results.by_indicator[indicator].status_comparison

\* total_births of by_status[status][indicator], 0 when there is no entry
StatusBirths(status, indicator) ==
    IF InByStatus(status, indicator)
    THEN coverage_results.by_status[status][indicator].total_births
    ELSE 0

\* births of the pre-filtered rows of an indicator with unknown or missing
\* status
UnclassifiedBirths(indicator) ==
    LET Unclassified(r) ==
            /\ r.indicator = indicator
            /\ (IsNA(r.u5mr_status) \/ r.u5mr_status = Some("unknown"))
    IN SeqSum(Column(Filter(ValidData(merged), Unclassified), Births))

\* C30: for every indicator and status on_track or off_track the entry of
\* status_comparison in by_indicator exists exactly when the entry of
\* by_status exists, both carry the same births_weighted_avg, simple_avg,
\* num_countries and total_births, and the overall total_births of an
\* indicator is the sum of its per-status total_births and of the births of
\* its rows with unknown or missing status.
C30_StatusBreakdownsAgree ==
    coverage_results # NotRun =>
        \A indicator \in Range(Column(merged, Indicator)) :
           /\ \A status \in {"on_track", "off_track"} :
                 /\ InStatusComparison(status, indicator) <=> InByStatus(status, indicator)
                 /\ InByStatus(status, indicator) =>
                       LET a == coverage_results.by_status[status][indicator]
                           b == coverage_results.by_indicator[indicator].status_comparison[status]
                       IN /\ FracEq(a.births_weighted_avg, b.births_weighted_avg)
                          /\ FracEq(a.simple_avg, b.simple_avg)
                          /\ a.num_countries = b.num_countries
                          /\ a.total_births = b.total_births
           /\ indicator \in DOMAIN coverage_results.overall =>
                 coverage_results.overall[indicator].total_births =
                    StatusBirths("on_track", indicator)
                    + StatusBirths("off_track", indicator)
                    + UnclassifiedBirths(indicator)

\* an indicator with a classified row and a row of unknown or missing status
C30_Witness ==
    /\ coverage_results # NotRun
    /\ \E indicator \in DOMAIN coverage_results.overall :
          /\ \E status \in {"on_track", "off_track"} :
                InByStatus(status, indicator) /\ InStatusComparison(status, indicator)
          /\ UnclassifiedBirths(indicator) > 0

====
